---- MODULE Spec2Model ----
(***************************************************************************)
(* wt: task-driven git worktree manager.                                   *)
(*                                                                         *)
(* The model covers the task lifecycle (task.Manager.Start / Finish /      *)
(* Remove), the registry (config.Config: Load, Save, AddTask, RemoveTask,  *)
(* FindTask) and the worktree package (branch naming and the git wrappers).*)
(* One command of the cli runs at a time; a command is a sequence of steps *)
(* separated by its external calls (git, the file system), tracked by pc,  *)
(* so that a failure or a crash can fall between any two of them.          *)
(*                                                                         *)
(* Strings whose characters matter (descriptions, ticket keys, branch      *)
(* names) are sequences of one-character strings.  Task.Created            *)
(* (time.Now()) is read by no modelled operation and is left out.          *)
(***************************************************************************)
EXTENDS Integers, Sequences, FiniteSets, TLC

\* ------------------------------------------------------------------ bounds

\* Start is not offered once the loaded registry holds this many records.
MaxTasks == 2

\* At most this many injected failures (of git, of the file system, crashes) in one run.
MaxFaults == 1

\* ------------------------------------------------------- program constants

\* worktree.SanitizeBranchName / BranchNameFromTicket: the length cap.
MaxBranchLen == 60

\* ----------------------------------------------------------------- strings

UpperChars == <<"A","B","C","D","E","F","G","H","I","J","K","L","M",
                "N","O","P","Q","R","S","T","U","V","W","X","Y","Z">>
LowerChars == <<"a","b","c","d","e","f","g","h","i","j","k","l","m",
                "n","o","p","q","r","s","t","u","v","w","x","y","z">>
DigitChars == <<"0","1","2","3","4","5","6","7","8","9">>
SpaceChars == {" ", "\t", "\n", "\r"}

Range(s) == {s[i] : i \in 1..Len(s)}

\* strings.ToLower on one (ASCII) character.
ToLowerChar(c) ==
    IF \E i \in 1..Len(UpperChars) : UpperChars[i] = c
    THEN LowerChars[CHOOSE i \in 1..Len(UpperChars) : UpperChars[i] = c]
    ELSE c

ToLower(s) == [i \in 1..Len(s) |-> ToLowerChar(s[i])]

\* The character class [a-z0-9] of the regexp in SanitizeBranchName.
IsSlugChar(c) == c \in Range(LowerChars) \cup Range(DigitChars)

RECURSIVE TrimLeftSet(_, _)
TrimLeftSet(s, cut) ==
    IF s # <<>> /\ Head(s) \in cut THEN TrimLeftSet(Tail(s), cut) ELSE s

RECURSIVE TrimRightSet(_, _)
TrimRightSet(s, cut) ==
    IF s # <<>> /\ s[Len(s)] \in cut
    THEN TrimRightSet(SubSeq(s, 1, Len(s) - 1), cut)
    ELSE s

\* strings.TrimSpace
TrimSpace(s) == TrimRightSet(TrimLeftSet(s, SpaceChars), SpaceChars)

\* Mutant of TrimHyphens: only the leading hyphens are trimmed.
TrimHyphensLeading(s) == TrimLeftSet(s, {"-"})

\* strings.Trim(s, "-")
TrimHyphens(s) == TrimRightSet(TrimLeftSet(s, {"-"}), {"-"})

\* Mutant of ReplaceRuns: every character outside the class becomes a hyphen.
ReplaceEach(s) == [i \in 1..Len(s) |-> IF IsSlugChar(s[i]) THEN s[i] ELSE "-"]

\* regexp `[^a-z0-9]+` ReplaceAllString(s, "-"): every maximal run of
\* characters outside the class becomes one hyphen.
RECURSIVE ReplaceRuns(_)
ReplaceRuns(s) ==
    IF s = <<>> THEN <<>>
    ELSE IF IsSlugChar(Head(s)) THEN <<Head(s)>> \o ReplaceRuns(Tail(s))
    ELSE LET rest == ReplaceRuns(Tail(s))
         IN  IF Tail(s) # <<>> /\ ~IsSlugChar(Head(Tail(s)))
             THEN rest
             ELSE <<"-">> \o rest

\* Mutant of CapLength: the cut is not followed by the trim.
CapLengthNoTrim(s) == IF Len(s) > MaxBranchLen THEN SubSeq(s, 1, MaxBranchLen) ELSE s

\* s[:60] followed by strings.TrimRight(s, "-"), applied when len(s) > 60.
CapLength(s) ==
    IF Len(s) > MaxBranchLen
    THEN TrimRightSet(SubSeq(s, 1, MaxBranchLen), {"-"})
    ELSE s

SanitizeBranchName(description) ==
    CapLength(TrimHyphens(ReplaceRuns(ToLower(TrimSpace(description)))))

\* Mutant of BranchName: the separator is written for the empty prefix too.
BranchNameSlashAlways(prefix, description) ==
    prefix \o <<"/">> \o SanitizeBranchName(description)

BranchName(prefix, description) ==
    IF prefix = <<>>
    THEN SanitizeBranchName(description)
    ELSE prefix \o <<"/">> \o SanitizeBranchName(description)

BranchNameFromTicket(prefix, ticketKey, summary) ==
    LET name == CapLength(ToLower(ticketKey) \o <<"-">> \o SanitizeBranchName(summary))
    IN  IF prefix = <<>> THEN name ELSE prefix \o <<"/">> \o name

\* filepath.Join: empty elements are dropped.  A path is the sequence of its
\* elements, each a sequence of characters.
JoinPath(elems) == SelectSeq(elems, LAMBDA e : e # <<>>)

\* filepath.Dir
DirOf(path) == IF path = <<>> THEN <<>> ELSE SubSeq(path, 1, Len(path) - 1)

\* ------------------------------------------------------------------ inputs

\* filepath.Base of the top level `git rev-parse --show-toplevel` prints: the
\* repositories are /a/app and /b/app.
RepoBase(repoPath) == <<"a","p","p">>

\* Texts typed on the command line as the description, or fetched as the
\* summary of a Jira issue.
Fix == <<"F","i","x">>
FixBang == <<"f","i","x","!">>
AB == <<"a"," ","b">>
Bang == <<"!">>

\* Jira issue keys.
P1 == <<"P","-","1">>

\* What is asked of `wt start`: [repo, text, key], key empty without --jira.
\* Two descriptions with one slug, a second slug, an issue whose summary has
\* the slug of a description, the same description in the other repository,
\* and a description with no slug at all.
Requests ==
    { [repo |-> "/a/app", text |-> Fix,     key |-> <<>>],
      [repo |-> "/a/app", text |-> FixBang, key |-> <<>>],
      [repo |-> "/a/app", text |-> AB,      key |-> <<>>],
      [repo |-> "/a/app", text |-> Fix,     key |-> P1],
      [repo |-> "/b/app", text |-> Fix,     key |-> <<>>],
      [repo |-> "/a/app", text |-> Bang,    key |-> <<>>] }

\* The identifiers generateID can return (4 random bytes; nothing excludes a repeat).
IDs == {"wt-1", "wt-2"}

\* DefaultConfig: branch_prefix "feature", worktrees_base ~/worktrees.
BranchPrefix == <<"f","e","a","t","u","r","e">>
WorktreesBase == <<"w","o","r","k","t","r","e","e","s">>

\* ------------------------------------------------------------------- state

VARIABLES
    pc,         \* position of the running command; "idle" between commands
    cur,        \* locals of the running (or last) command
    Tasks,      \* Config.Tasks of the running process (the slice)
    backing,    \* the array under Config.Tasks (what a *Task points into)
    disk,       \* ~/.wt/config.yaml: [corrupt, tasks]
    branches,   \* git: set of [repo, name]
    worktrees,  \* git + file system: set of [path, repo, branch]
    parents,    \* directories created by os.MkdirAll
    calls,      \* external operations invoked by the running (or last) command
    result,     \* what the last command returned
    pre,        \* registry and git state when the running (or last) command began
    faults,     \* injected failures so far
    lost,       \* a save of the registry has failed, or a command was cut short
    cfg,        \* a *Config shared by goroutines: [Tasks, Connectors]
    file,       \* the file that Config is saved to: [corrupt, tasks, connectors]
    mu,         \* Config.mu: 0 when free, else the goroutine holding it
    gor,        \* the goroutines calling into cfg: position, call and locals of each
    args,       \* a call of a function of the worktree package: [fn, prefix, key, text]
    got,        \* what that call returned
    mem,        \* a Config that is saved: scalar fields, aliases, connectors, tasks
    doc,        \* the YAML document of the file it is saved to: [exists, body]
    loaded,     \* what Load returned last: [done, cfg]
    phase,      \* how far the save and the load have come
    req,        \* a call of a helper of the cli: the function and its arguments
    ret         \* what that call returned

\* The state of a run of the cli (all of it but faults, which every run counts).
cliVars == <<pc, cur, Tasks, backing, disk, branches, worktrees, parents, calls, result, pre,
             lost>>

\* The state of a Config used through its methods.
registryVars == <<cfg, file, mu, gor>>

\* The state of a call of a naming function.
namingVars == <<args, got>>

\* The state of a Config that is saved and loaded again.
persistVars == <<mem, doc, loaded, phase>>

\* The state of a call of a helper.
helperVars == <<req, ret>>

vars == <<cliVars, faults, registryVars, namingVars, persistVars, helperVars>>

\* config.Task
NewTask(id, description, worktree, branch, repoPath, connector, ticketKey) ==
    [ID |-> id, Description |-> description, Worktree |-> worktree, Branch |-> branch,
     RepoPath |-> repoPath, Connector |-> connector, TicketKey |-> ticketKey]

\* The zero Task: what a nil *Task result is shown as.
NoTask == NewTask("", <<>>, <<>>, <<>>, "", "", <<>>)

\* task.StartOptions
NoOpts == [Description |-> <<>>, RepoPath |-> "", Connector |-> "",
           TicketKey |-> <<>>, TicketTitle |-> <<>>]

NoCur == [cmd |-> "none", opts |-> NoOpts, arg |-> "", id |-> "", repoName |-> <<>>,
          branch |-> <<>>, wtPath |-> <<>>, ptr |-> 0,
          found |-> NoTask, branchDeleteFailed |-> FALSE, cwd |-> <<>>]

NoResult == [cmd |-> "none", status |-> "none", err |-> "", branch |-> <<>>,
             task |-> NoTask, warned |-> FALSE]

NoSnapshot == [tasks |-> <<>>, disk |-> [corrupt |-> FALSE, tasks |-> <<>>],
               branches |-> {}, worktrees |-> {}, faults |-> 0]

Snapshot == [tasks |-> Tasks, disk |-> disk, branches |-> branches, worktrees |-> worktrees,
             faults |-> faults]

\* The goroutines that call into one Config.
Goroutines == {"g1", "g2"}

\* A call of a method of Config, and no call.
RegistryCall(op, t, id, name, cc) == [op |-> op, t |-> t, id |-> id, name |-> name, cc |-> cc]

NoCall == RegistryCall("none", NoTask, "", "", "")

\* A goroutine before its first call.
NoGoroutine == [pc |-> "idle", call |-> NoCall, read |-> <<>>,
                data |-> [Tasks |-> <<>>, Connectors |-> {}], err |-> "", n |-> 0]

\* No call of a naming function.
NoArgs == [fn |-> "none", prefix |-> <<>>, key |-> <<>>, text |-> <<>>]

NoName == [returned |-> FALSE, name |-> <<>>]

\* No file, no branch, no working copy; no command running.
CliInit ==
    /\ pc = "idle"
    /\ cur = NoCur
    /\ Tasks = <<>>
    /\ backing = <<>>
    /\ disk = [corrupt |-> FALSE, tasks |-> <<>>]
    /\ branches = {}
    /\ worktrees = {}
    /\ parents = {}
    /\ calls = <<>>
    /\ result = NoResult
    /\ pre = NoSnapshot
    /\ lost = FALSE

\* ------------------------------------------------- the file as a document

\* time.Time: an instant, and whether a monotonic clock reading comes with it.
Time(instant, mono) == [instant |-> instant, mono |-> mono]

\* config.Task with its Created field.
StoredTask(t, created) ==
    [f \in DOMAIN t \cup {"Created"} |-> IF f = "Created" THEN created ELSE t[f]]

Null == <<"n","u","l","l">>
Main == <<"m","a","i","n">>

\* yaml: the plain scalars that are read as null.
IsNullScalar(text) == text \in {<<>>, <<"~">>, Null}

\* yaml encoder, a string: quoted when it would not be read back as a string.
EncodeString(s) == [text |-> s, quoted |-> IsNullScalar(s)]

\* yaml decoder, into a string: a null sets the zero value.
DecodeString(sc) == IF ~sc.quoted /\ IsNullScalar(sc.text) THEN <<>> ELSE sc.text

\* The same two for the strings kept as one name (an id, a repository, a
\* connector, an agent, a url), of which only the empty one reads as null.
EncodeName(a) == [text |-> a, quoted |-> a = ""]

DecodeName(sc) == IF ~sc.quoted /\ sc.text = "" THEN "" ELSE sc.text

\* And for a path, kept as its elements.
EncodePath(p) == [text |-> p, quoted |-> p = <<>>]

DecodePath(sc) == IF ~sc.quoted /\ sc.text = <<>> THEN <<>> ELSE sc.text

\* yaml encoder, a time.Time: Format(RFC3339Nano), which writes the instant
\* to the nanosecond and no monotonic reading.
EncodeTime(t) == [text |-> t.instant, quoted |-> FALSE]

\* yaml decoder, into a time.Time: time.Parse.
DecodeTime(sc) == Time(sc.text, FALSE)

\* A key of a mapping: with omitempty it is left out for the zero value.
Key(key, omitted, value) == IF omitted THEN <<>> ELSE key :> value

\* A key is read into its field; the field keeps its value when the key is absent.
Has(m, key) == key \in DOMAIN m

\* yaml.Marshal of a Task.
MarshalTask(t) ==
    Key("id", FALSE, EncodeName(t.ID))
    @@ Key("description", FALSE, EncodeString(t.Description))
    @@ Key("worktree", FALSE, EncodePath(t.Worktree))
    @@ Key("branch", FALSE, EncodeString(t.Branch))
    @@ Key("repo_path", FALSE, EncodeName(t.RepoPath))
    @@ Key("connector", t.Connector = "", EncodeName(t.Connector))
    @@ Key("ticket_key", t.TicketKey = <<>>, EncodeString(t.TicketKey))
    @@ Key("created", FALSE, EncodeTime(t.Created))

\* yaml.Unmarshal into a new Task.
UnmarshalTask(m) ==
    [ID          |-> IF Has(m, "id") THEN DecodeName(m["id"]) ELSE "",
     Description |-> IF Has(m, "description") THEN DecodeString(m["description"]) ELSE <<>>,
     Worktree    |-> IF Has(m, "worktree") THEN DecodePath(m["worktree"]) ELSE <<>>,
     Branch      |-> IF Has(m, "branch") THEN DecodeString(m["branch"]) ELSE <<>>,
     RepoPath    |-> IF Has(m, "repo_path") THEN DecodeName(m["repo_path"]) ELSE "",
     Connector   |-> IF Has(m, "connector") THEN DecodeName(m["connector"]) ELSE "",
     TicketKey   |-> IF Has(m, "ticket_key") THEN DecodeString(m["ticket_key"]) ELSE <<>>,
     Created     |-> IF Has(m, "created") THEN DecodeTime(m["created"])
                     ELSE Time(0, FALSE)]

\* yaml.Marshal of a ConnectorConfig, kept as its url.
MarshalConnector(cc) == Key("url", cc = "", EncodeName(cc))

UnmarshalConnector(m) == IF Has(m, "url") THEN DecodeName(m["url"]) ELSE ""

MarshalConnectors(connectors) ==
    {[name |-> x.name, cc |-> MarshalConnector(x.cc)] : x \in connectors}

\* Read into the map that is there: a name of the document replaces its entry.
UnmarshalConnectors(entries, old) ==
    {x \in old : \A e \in entries : e.name # x.name}
        \cup {[name |-> e.name, cc |-> UnmarshalConnector(e.cc)] : e \in entries}

MarshalTasks(tasks) == [i \in 1..Len(tasks) |-> MarshalTask(tasks[i])]

UnmarshalTasks(entries) == [i \in 1..Len(entries) |-> UnmarshalTask(entries[i])]

MarshalAliases(aliases) ==
    {[alias |-> x.alias, agent |-> EncodeName(x.agent)] : x \in aliases}

UnmarshalAliases(entries, old) ==
    {x \in old : \A e \in entries : e.alias # x.alias}
        \cup {[alias |-> e.alias, agent |-> DecodeName(e.agent)] : e \in entries}

\* Mutant of Marshal: branch_prefix is written with omitempty.
MarshalPrefixOmitted(c) ==
    Key("worktrees_base", FALSE, EncodeString(c.WorktreesBase))
    @@ Key("default_branch", FALSE, EncodeString(c.DefaultBranch))
    @@ Key("branch_prefix", c.BranchPrefix = <<>>, EncodeString(c.BranchPrefix))
    @@ Key("default_agent", c.DefaultAgent = "", EncodeName(c.DefaultAgent))
    @@ Key("agent_aliases", c.AgentAliases = {}, MarshalAliases(c.AgentAliases))
    @@ Key("connectors", c.Connectors = {}, MarshalConnectors(c.Connectors))
    @@ Key("tasks", c.Tasks = <<>>, MarshalTasks(c.Tasks))

\* yaml.Marshal of a Config: the tags of the struct.
Marshal(c) ==
    Key("worktrees_base", FALSE, EncodeString(c.WorktreesBase))
    @@ Key("default_branch", FALSE, EncodeString(c.DefaultBranch))
    @@ Key("branch_prefix", FALSE, EncodeString(c.BranchPrefix))
    @@ Key("default_agent", c.DefaultAgent = "", EncodeName(c.DefaultAgent))
    @@ Key("agent_aliases", c.AgentAliases = {}, MarshalAliases(c.AgentAliases))
    @@ Key("connectors", c.Connectors = {}, MarshalConnectors(c.Connectors))
    @@ Key("tasks", c.Tasks = <<>>, MarshalTasks(c.Tasks))

\* yaml.Unmarshal of a document onto a Config.
Unmarshal(m, c) ==
    [WorktreesBase |-> IF Has(m, "worktrees_base") THEN DecodeString(m["worktrees_base"])
                       ELSE c.WorktreesBase,
     DefaultBranch |-> IF Has(m, "default_branch") THEN DecodeString(m["default_branch"])
                       ELSE c.DefaultBranch,
     BranchPrefix  |-> IF Has(m, "branch_prefix") THEN DecodeString(m["branch_prefix"])
                       ELSE c.BranchPrefix,
     DefaultAgent  |-> IF Has(m, "default_agent") THEN DecodeName(m["default_agent"])
                       ELSE c.DefaultAgent,
     AgentAliases  |-> IF Has(m, "agent_aliases")
                       THEN UnmarshalAliases(m["agent_aliases"], c.AgentAliases)
                       ELSE c.AgentAliases,
     Connectors    |-> IF Has(m, "connectors")
                       THEN UnmarshalConnectors(m["connectors"], c.Connectors)
                       ELSE c.Connectors,
     Tasks         |-> IF Has(m, "tasks") THEN UnmarshalTasks(m["tasks"]) ELSE c.Tasks]

DefaultConfig ==
    [WorktreesBase |-> WorktreesBase, DefaultBranch |-> Main, BranchPrefix |-> BranchPrefix,
     DefaultAgent |-> "", AgentAliases |-> {}, Connectors |-> {}, Tasks |-> <<>>]

\* The file: absent, or a document, or bytes that are no document.
NoFile == [exists |-> FALSE, corrupt |-> FALSE, body |-> <<>>]

\* Mutant of Load: a file that cannot be parsed is taken as no file.
LoadCorruptAsNone(d, readOk) ==
    CASE ~d.exists -> [err |-> "", isNil |-> FALSE, cfg |-> DefaultConfig]
      [] ~readOk   -> [err |-> "failed to read config", isNil |-> TRUE, cfg |-> DefaultConfig]
      [] d.corrupt -> [err |-> "", isNil |-> FALSE, cfg |-> DefaultConfig]
      [] OTHER     -> [err |-> "", isNil |-> FALSE, cfg |-> Unmarshal(d.body, DefaultConfig)]

\* config.Load: the error, whether the *Config is nil, and the Config if not.
\* readOk: os.ReadFile could read the file that is there.
Load(d, readOk) ==
    CASE ~d.exists -> [err |-> "", isNil |-> FALSE, cfg |-> DefaultConfig]
      [] ~readOk   -> [err |-> "failed to read config", isNil |-> TRUE, cfg |-> DefaultConfig]
      [] d.corrupt -> [err |-> "failed to parse config", isNil |-> TRUE, cfg |-> DefaultConfig]
      [] OTHER     -> [err |-> "", isNil |-> FALSE, cfg |-> Unmarshal(d.body, DefaultConfig)]

\* Config.Save: the file after the call.
WriteDocument(outcome, c, old) ==
    CASE outcome = "ok"        -> [exists |-> TRUE, corrupt |-> FALSE, body |-> Marshal(c)]
      [] outcome = "untouched" -> old
      [] outcome = "truncated" -> [exists |-> TRUE, corrupt |-> FALSE, body |-> <<>>]
      [] outcome = "partial"   -> [exists |-> TRUE, corrupt |-> TRUE, body |-> <<>>]

NoLoad == [done |-> FALSE, after |-> "none", err |-> "", isNil |-> TRUE, cfg |-> DefaultConfig,
           key |-> "", set |-> FALSE]

\* The keys of configCmd.
ConfigKeys == {"worktrees_base", "default_branch", "branch_prefix", "default_agent"}

\* configCmd with one argument: the value is printed.
ConfigGet(c, key) ==
    CASE key = "worktrees_base" -> [err |-> "", cfg |-> c]
      [] key = "default_branch" -> [err |-> "", cfg |-> c]
      [] key = "branch_prefix"  -> [err |-> "", cfg |-> c]
      [] key = "default_agent"  -> [err |-> "", cfg |-> c]
      [] OTHER                  -> [err |-> "unknown config key", cfg |-> c]

\* Mutant of ConfigSet: a key that is not known is not refused.
ConfigSetUnknownKept(c, key, value) ==
    CASE key = "worktrees_base" -> [err |-> "", cfg |-> [c EXCEPT !.WorktreesBase = value]]
      [] key = "default_branch" -> [err |-> "", cfg |-> [c EXCEPT !.DefaultBranch = value]]
      [] key = "branch_prefix"  -> [err |-> "", cfg |-> [c EXCEPT !.BranchPrefix = value]]
      [] key = "default_agent"  -> [err |-> "", cfg |-> [c EXCEPT !.DefaultAgent = value]]
      [] OTHER                  -> [err |-> "", cfg |-> c]

\* configCmd with two arguments: the switch that sets the field.
ConfigSet(c, key, value) ==
    CASE key = "worktrees_base" -> [err |-> "", cfg |-> [c EXCEPT !.WorktreesBase = value]]
      [] key = "default_branch" -> [err |-> "", cfg |-> [c EXCEPT !.DefaultBranch = value]]
      [] key = "branch_prefix"  -> [err |-> "", cfg |-> [c EXCEPT !.BranchPrefix = value]]
      [] key = "default_agent"  -> [err |-> "", cfg |-> [c EXCEPT !.DefaultAgent = value]]
      [] OTHER                  -> [err |-> "unknown config key", cfg |-> c]

\* ------------------------------------------------------ helpers of the cli

\* A line of `git worktree list --porcelain` after strings.TrimSpace: the
\* text up to its first space, and the text behind that space.  A tag that
\* nothing follows is the tag alone, and the blank line is no tag at all.
Line(tag, rest) == [tag |-> tag, rest |-> rest]

Blank == Line("", "")

\* strings.HasPrefix(line, tag + " ")
HasTag(line, tag) == line.tag = tag /\ line.rest # ""

\* worktree.WorktreeInfo, and its zero value.
WorktreeInfo(path, head, branch, bare) ==
    [Path |-> path, HEAD |-> head, Branch |-> branch, Bare |-> bare]

NoInfo == WorktreeInfo("", "", "", FALSE)

\* Mutant of ParseLine: a line with an unknown tag clears the branch.
ParseLineUnknownClears(current, line) ==
    CASE HasTag(line, "worktree") -> [current EXCEPT !.Path = line.rest]
      [] HasTag(line, "HEAD")     -> [current EXCEPT !.HEAD = line.rest]
      [] HasTag(line, "branch")   -> [current EXCEPT !.Branch = line.rest]
      [] line = Line("bare", "")  -> [current EXCEPT !.Bare = TRUE]
      [] OTHER                    -> [current EXCEPT !.Branch = ""]

\* parseWorktreeList: what a line that is not blank does to the current record.
ParseLine(current, line) ==
    CASE HasTag(line, "worktree") -> [current EXCEPT !.Path = line.rest]
      [] HasTag(line, "HEAD")     -> [current EXCEPT !.HEAD = line.rest]
      [] HasTag(line, "branch")   -> [current EXCEPT !.Branch = line.rest]
      [] line = Line("bare", "")  -> [current EXCEPT !.Bare = TRUE]
      [] OTHER                    -> current

\* parseWorktreeList: the loop over the lines, and what follows it.
RECURSIVE ParseLines(_, _, _)
ParseLines(lines, found, current) ==
    IF lines = <<>>
    THEN IF current.Path # "" THEN Append(found, current) ELSE found
    ELSE IF Head(lines) = Blank
    THEN IF current.Path # ""
         THEN ParseLines(Tail(lines), Append(found, current), NoInfo)
         ELSE ParseLines(Tail(lines), found, current)
    ELSE ParseLines(Tail(lines), found, ParseLine(current, Head(lines)))

\* parseWorktreeList, on the lines strings.Split returns.
parseWorktreeList(lines) == ParseLines(lines, <<>>, NoInfo)

\* Mutant of StartAgentName: the environment is asked before the flag.
StartAgentNameEnvFirst(flag, env, def) ==
    IF env # "" THEN env ELSE IF flag # "" THEN flag ELSE def

\* startCmd: the agent to launch, from --agent, WT_AGENT and default_agent.
StartAgentName(flag, env, def) ==
    LET fromFlag == flag
        fromEnv == IF fromFlag = "" THEN env ELSE fromFlag
    IN  IF fromEnv = "" THEN def ELSE fromEnv

\* agentCmd: the same three steps.
AgentCmdAgentName(flag, env, def) ==
    LET fromFlag == flag
        fromEnv == IF fromFlag = "" THEN env ELSE fromFlag
    IN  IF fromEnv = "" THEN def ELSE fromEnv

\* ParseAgentArgs: its locals before the first character.
NoArgState == [args |-> <<>>, current |-> <<>>, inQuote |-> FALSE, quoteChar |-> ""]

IsQuote(r) == r \in {"\"", "'"}

\* Mutant of ArgStep: a space ends the argument inside quotes too.
ArgStepSplitsInQuotes(st, r) ==
    CASE IsQuote(r) /\ ~st.inQuote -> [st EXCEPT !.inQuote = TRUE, !.quoteChar = r]
      [] r = st.quoteChar /\ st.inQuote -> [st EXCEPT !.inQuote = FALSE, !.quoteChar = ""]
      [] r = " " ->
            IF Len(st.current) > 0
            THEN [st EXCEPT !.args = Append(st.args, st.current), !.current = <<>>]
            ELSE st
      [] OTHER -> [st EXCEPT !.current = Append(st.current, r)]

\* ParseAgentArgs: the switch on one character.
ArgStep(st, r) ==
    CASE IsQuote(r) /\ ~st.inQuote -> [st EXCEPT !.inQuote = TRUE, !.quoteChar = r]
      [] r = st.quoteChar /\ st.inQuote -> [st EXCEPT !.inQuote = FALSE, !.quoteChar = ""]
      [] r = " " /\ ~st.inQuote ->
            IF Len(st.current) > 0
            THEN [st EXCEPT !.args = Append(st.args, st.current), !.current = <<>>]
            ELSE st
      [] OTHER -> [st EXCEPT !.current = Append(st.current, r)]

\* ParseAgentArgs: the loop over the characters.
RECURSIVE ArgLoop(_, _)
ArgLoop(text, st) == IF text = <<>> THEN st ELSE ArgLoop(Tail(text), ArgStep(st, Head(text)))

ParseAgentArgs(argsStr) ==
    IF argsStr = <<>> THEN <<>>
    ELSE LET st == ArgLoop(argsStr, NoArgState)
         IN  IF Len(st.current) > 0 THEN Append(st.args, st.current) ELSE st.args

\* No helper is called.
NoHelperCall == [fn |-> "none", lines |-> <<>>, flag |-> "", env |-> "", def |-> "",
                 text |-> <<>>]

NoReturn == [returned |-> FALSE, infos |-> <<>>, name |-> "", args |-> <<>>]

HelperInit ==
    /\ req = NoHelperCall
    /\ ret = NoReturn

\* No Config is being saved.
PersistInit ==
    /\ mem = DefaultConfig
    /\ doc = NoFile
    /\ loaded = NoLoad
    /\ phase = "none"

\* DefaultConfig with no file written yet, and no call in progress.
RegistryInit ==
    /\ cfg = [Tasks |-> <<>>, Connectors |-> {}]
    /\ file = [corrupt |-> FALSE, tasks |-> <<>>, connectors |-> {}]
    /\ mu = "free"
    /\ gor = [g \in Goroutines |-> NoGoroutine]

Init ==
    /\ CliInit
    /\ faults = 0
    /\ RegistryInit
    /\ args = NoArgs
    /\ got = NoName
    /\ PersistInit
    /\ HelperInit

\* --------------------------------------------------- git and the file system

\* git check-ref-format, as far as the names built here can violate it.
ValidBranchName(b) == b # <<>> /\ b[1] # "/" /\ b[Len(b)] # "/"

IsPrefixPath(p, q) == Len(p) <= Len(q) /\ SubSeq(q, 1, Len(p)) = p

\* A directory that exists and is not empty: a working copy, or above one.
PathOccupied(path) == \E w \in worktrees : IsPrefixPath(path, w.path)

\* Mutant of GitBranchExists: the probe finds no branch.
GitBranchExistsNever(repoPath, branch) == FALSE

\* `git rev-parse --verify <branch>` exits zero.
GitBranchExists(repoPath, branch) == [repo |-> repoPath, name |-> branch] \in branches

\* `git worktree add -b <branch> <path>` can succeed.
GitCanCreate(repoPath, worktreePath, branch) ==
    /\ ValidBranchName(branch)
    /\ ~GitBranchExists(repoPath, branch)
    /\ ~PathOccupied(worktreePath)

\* `git worktree remove <path> --force` can succeed: path is a working copy of the repository.
GitCanRemove(repoPath, worktreePath) ==
    \E w \in worktrees : w.repo = repoPath /\ w.path = worktreePath

\* `git branch -D <branch>` can succeed: the branch exists and no working copy has it checked out.
GitCanDeleteBranch(repoPath, branch) ==
    /\ GitBranchExists(repoPath, branch)
    /\ ~\E w \in worktrees : w.repo = repoPath /\ w.branch = branch

\* ---------------------------------------------------------------- registry

\* What one call of Config.Save can do to the file: write it, fail before
\* touching it (MkdirAll, open), or fail inside os.WriteFile after the file
\* was truncated, leaving it empty or holding an unparsable prefix.
SaveOutcomes == {"ok", "untouched", "truncated", "partial"}

\* Config.Save: the file after the call, for the in-memory tasks `tasks`.
Save(outcome, tasks, old) ==
    CASE outcome = "ok"        -> [corrupt |-> FALSE, tasks |-> tasks]
      [] outcome = "untouched" -> old
      [] outcome = "truncated" -> [corrupt |-> FALSE, tasks |-> <<>>]
      [] outcome = "partial"   -> [corrupt |-> TRUE, tasks |-> <<>>]

\* Config.FindTask: index of the first record with the id, 0 when there is none.
FindTask(tasks, id) ==
    IF \E i \in 1..Len(tasks) : tasks[i].ID = id
    THEN CHOOSE i \in 1..Len(tasks) :
            /\ tasks[i].ID = id
            /\ \A j \in 1..(i - 1) : tasks[j].ID # id
    ELSE 0

\* Config.AddTask, in memory: c.Tasks = append(c.Tasks, t)
AddTask(tasks, t) == Append(tasks, t)

\* Config.RemoveTask, in memory: append(c.Tasks[:i], c.Tasks[i+1:]...)
\* Mutant of RemoveAt: the records behind the removed one go with it.
RemoveAtWithTail(tasks, i) == SubSeq(tasks, 1, i - 1)

RemoveAt(tasks, i) == SubSeq(tasks, 1, i - 1) \o SubSeq(tasks, i + 1, Len(tasks))

\* The array under c.Tasks after that append: the records behind i moved one
\* slot down in place, the last slot keeps its old content.
ShiftedArray(arr, i) ==
    [j \in 1..Len(arr) |-> IF j < i \/ j = Len(arr) THEN arr[j] ELSE arr[j + 1]]

\* ---------------------------------------------------------------- commands

\* An entry of calls: the operation, and whether it succeeded (for
\* BranchExists: whether it reported the branch as existing).
Call(op, ok) == [op |-> op, ok |-> ok]

Called(op, ok) == \E i \in 1..Len(calls) : calls[i] = Call(op, ok)

Invoked(op) == \E i \in 1..Len(calls) : calls[i].op = op

\* An external call fails for a reason outside the model (fails == TRUE) or not.
Inject(fails) ==
    /\ fails => faults < MaxFaults
    /\ faults' = IF fails THEN faults + 1 ELSE faults

Returned(cmd, status, err, branch, task, warned) ==
    [cmd |-> cmd, status |-> status, err |-> err, branch |-> branch,
     task |-> task, warned |-> warned]

Failed(cmd, err) == Returned(cmd, "error", err, <<>>, NoTask, cur.branchDeleteFailed)

\* cli loadConfig / config.Load at the start of a command, then the first
\* step of the command.  A file that cannot be read or parsed ends the command.
Begin(cmd, opts, arg, first) ==
    /\ pc = "idle"
    /\ cur' = [NoCur EXCEPT !.cmd = cmd, !.opts = opts, !.arg = arg]
    /\ \E readOk \in BOOLEAN :
         /\ Inject(~readOk)
         /\ calls' = <<Call("Load", readOk /\ ~disk.corrupt)>>
         /\ IF disk.corrupt \/ ~readOk
            THEN /\ pc' = "done"
                 /\ Tasks' = <<>>
                 /\ backing' = <<>>
                 /\ result' = Returned(cmd, "error", "failed to load config", <<>>, NoTask,
                                       FALSE)
            ELSE /\ pc' = first
                 /\ Tasks' = disk.tasks
                 /\ backing' = disk.tasks
                 /\ result' = NoResult
    /\ pre' = [Snapshot EXCEPT !.tasks = Tasks']
    /\ UNCHANGED <<disk, branches, worktrees, parents, lost>>
    /\ UNCHANGED <<registryVars, namingVars, persistVars, helperVars>>

\* Mutant of StartOptionsOf: the connector is not named for a Jira issue.
StartOptionsOfNoConnector(repoPath, text, key) ==
    IF key = <<>>
    THEN [Description |-> text, RepoPath |-> repoPath, Connector |-> "",
          TicketKey |-> <<>>, TicketTitle |-> <<>>]
    ELSE [Description |-> text, RepoPath |-> repoPath, Connector |-> "",
          TicketKey |-> key, TicketTitle |-> text]

\* startCmd: StartOptions from a description, or from a Jira issue.
StartOptionsOf(repoPath, text, key) ==
    IF key = <<>>
    THEN [Description |-> text, RepoPath |-> repoPath, Connector |-> "",
          TicketKey |-> <<>>, TicketTitle |-> <<>>]
    ELSE [Description |-> text, RepoPath |-> repoPath, Connector |-> "jira",
          TicketKey |-> key, TicketTitle |-> text]

StartCmd ==
    /\ Len(disk.tasks) < MaxTasks
    /\ \E r \in Requests :
         Begin("start", StartOptionsOf(r.repo, r.text, r.key), "", "start_repoName")

\* Manager.Start: the branch name for the options.
StartBranch(opts) ==
    IF opts.TicketKey # <<>>
    THEN BranchNameFromTicket(BranchPrefix, opts.TicketKey,
                              IF opts.TicketTitle = <<>> THEN opts.Description
                              ELSE opts.TicketTitle)
    ELSE BranchName(BranchPrefix, opts.Description)

\* Manager.Start: worktree.RepoName and the branch name.  (The id generateID
\* returns here is first used when the Task is built: it is drawn there.)
StartRepoName ==
    /\ pc = "start_repoName"
    /\ \E ok \in BOOLEAN :
         /\ Inject(~ok)
         /\ calls' = Append(calls, Call("RepoName", ok))
         /\ IF ok
            THEN /\ cur' = [cur EXCEPT !.repoName = RepoBase(cur.opts.RepoPath),
                                       !.branch = StartBranch(cur.opts)]
                 /\ pc' = "start_branchExists"
                 /\ UNCHANGED result
            ELSE /\ pc' = "done"
                 /\ result' = Failed("start", "not a git repository")
                 /\ UNCHANGED cur
    /\ UNCHANGED <<Tasks, backing, disk, branches, worktrees, parents, pre, lost>>
    /\ UNCHANGED <<registryVars, namingVars, persistVars, helperVars>>

\* Manager.Start: the worktree path for a repository name and a description.
StartWorktreePath(repoName, description) ==
    JoinPath(<<WorktreesBase, repoName, SanitizeBranchName(description)>>)

\* Mutant of StartBranchExists: the report of the probe is not acted on.
StartBranchExistsUnchecked ==
    /\ pc = "start_branchExists"
    /\ \E gitRan \in BOOLEAN :
         /\ Inject(~gitRan)
         /\ calls' = Append(calls, Call("BranchExists",
                                        gitRan /\ GitBranchExists(cur.opts.RepoPath,
                                                                  cur.branch)))
    /\ pc' = "start_mkdirAll"
    /\ cur' = [cur EXCEPT !.wtPath = StartWorktreePath(cur.repoName, cur.opts.Description)]
    /\ UNCHANGED <<Tasks, backing, disk, branches, worktrees, parents, result, pre, lost>>
    /\ UNCHANGED <<registryVars, namingVars, persistVars, helperVars>>

\* Manager.Start: worktree.BranchExists; a branch that exists ends the command.
StartBranchExists ==
    /\ pc = "start_branchExists"
    /\ \E gitRan \in BOOLEAN :
         /\ Inject(~gitRan)
         /\ LET exists == gitRan /\ GitBranchExists(cur.opts.RepoPath, cur.branch)
            IN  /\ calls' = Append(calls, Call("BranchExists", exists))
                /\ IF exists
                   THEN /\ pc' = "done"
                        /\ UNCHANGED cur
                        /\ result' = Returned("start", "error", "branch already exists",
                                              cur.branch, NoTask, FALSE)
                   ELSE /\ pc' = "start_mkdirAll"
                        /\ cur' = [cur EXCEPT !.wtPath = StartWorktreePath(cur.repoName,
                                                                   cur.opts.Description)]
                        /\ UNCHANGED result
    /\ UNCHANGED <<Tasks, backing, disk, branches, worktrees, parents, pre, lost>>
    /\ UNCHANGED <<registryVars, namingVars, persistVars, helperVars>>

\* Mutant of StartMkdirAll: os.MkdirAll is tried again when it fails.
StartMkdirAllRetried ==
    /\ pc = "start_mkdirAll"
    /\ \E ok \in BOOLEAN :
         /\ Inject(~ok)
         /\ calls' = Append(calls, Call("MkdirAll", ok))
         /\ IF ok
            THEN /\ parents' = parents \cup {DirOf(cur.wtPath)}
                 /\ pc' = "start_create"
            ELSE /\ pc' = "start_mkdirAll"
                 /\ UNCHANGED parents
    /\ UNCHANGED <<cur, Tasks, backing, disk, branches, worktrees, result, pre, lost>>
    /\ UNCHANGED <<registryVars, namingVars, persistVars, helperVars>>

\* Manager.Start: os.MkdirAll(filepath.Dir(wtPath))
StartMkdirAll ==
    /\ pc = "start_mkdirAll"
    /\ \E ok \in BOOLEAN :
         /\ Inject(~ok)
         /\ calls' = Append(calls, Call("MkdirAll", ok))
         /\ IF ok
            THEN /\ parents' = parents \cup {DirOf(cur.wtPath)}
                 /\ pc' = "start_create"
                 /\ UNCHANGED result
            ELSE /\ pc' = "done"
                 /\ result' = Failed("start", "failed to create worktree directory")
                 /\ UNCHANGED parents
    /\ UNCHANGED <<cur, Tasks, backing, disk, branches, worktrees, pre, lost>>
    /\ UNCHANGED <<registryVars, namingVars, persistVars, helperVars>>

\* Mutant of StartCreate: the error of worktree.Create is dropped.
StartCreateErrorIgnored ==
    /\ pc = "start_create"
    /\ \E gitOk \in BOOLEAN :
         /\ Inject(~gitOk)
         /\ calls' = Append(calls, Call("Create", gitOk /\ GitCanCreate(cur.opts.RepoPath,
                                                                      cur.wtPath, cur.branch)))
         /\ IF gitOk /\ GitCanCreate(cur.opts.RepoPath, cur.wtPath, cur.branch)
            THEN /\ branches' = branches \cup {[repo |-> cur.opts.RepoPath,
                                                 name |-> cur.branch]}
                 /\ worktrees' = worktrees \cup {[path |-> cur.wtPath,
                                                   repo |-> cur.opts.RepoPath,
                                                   branch |-> cur.branch]}
            ELSE UNCHANGED <<branches, worktrees>>
    /\ pc' = "start_addTask"
    /\ UNCHANGED <<cur, Tasks, backing, disk, parents, result, pre, lost>>
    /\ UNCHANGED <<registryVars, namingVars, persistVars, helperVars>>

\* Manager.Start: worktree.Create; on failure nothing is recorded.
StartCreate ==
    /\ pc = "start_create"
    /\ \E gitOk \in BOOLEAN :
         /\ Inject(~gitOk)
         /\ calls' = Append(calls, Call("Create", gitOk /\ GitCanCreate(cur.opts.RepoPath,
                                                                      cur.wtPath, cur.branch)))
         /\ IF gitOk /\ GitCanCreate(cur.opts.RepoPath, cur.wtPath, cur.branch)
            THEN /\ branches' = branches \cup {[repo |-> cur.opts.RepoPath,
                                                 name |-> cur.branch]}
                 /\ worktrees' = worktrees \cup {[path |-> cur.wtPath,
                                                   repo |-> cur.opts.RepoPath,
                                                   branch |-> cur.branch]}
                 /\ pc' = "start_addTask"
                 /\ UNCHANGED result
            ELSE /\ pc' = "done"
                 /\ result' = Failed("start", "failed to create worktree")
                 /\ UNCHANGED <<branches, worktrees>>
    /\ UNCHANGED <<cur, Tasks, backing, disk, parents, pre, lost>>
    /\ UNCHANGED <<registryVars, namingVars, persistVars, helperVars>>

\* Manager.Start: the Task that is registered, for the id generateID returned.
StartTask(id) ==
    NewTask(id, cur.opts.Description, cur.wtPath, cur.branch, cur.opts.RepoPath,
            cur.opts.Connector, cur.opts.TicketKey)

\* Mutant of StartAddTask: the error of AddTask is returned as it is.
StartAddTaskBareError ==
    /\ pc = "start_addTask"
    /\ \E id \in IDs, outcome \in SaveOutcomes :
         /\ Inject(outcome # "ok")
         /\ lost' = (lost \/ outcome # "ok")
         /\ calls' = Append(calls, Call("Save", outcome = "ok"))
         /\ cur' = [cur EXCEPT !.id = id]
         /\ Tasks' = AddTask(Tasks, StartTask(id))
         /\ backing' = AddTask(Tasks, StartTask(id))
         /\ disk' = Save(outcome, Tasks', disk)
         /\ result' = IF outcome = "ok"
                      THEN Returned("start", "ok", "", <<>>, StartTask(id), FALSE)
                      ELSE Failed("start", "failed to save config")
    /\ pc' = "done"
    /\ UNCHANGED <<branches, worktrees, parents, pre>>
    /\ UNCHANGED <<registryVars, namingVars, persistVars, helperVars>>

\* Manager.Start: Config.AddTask (append, then Save) and the return.
StartAddTask ==
    /\ pc = "start_addTask"
    /\ \E id \in IDs, outcome \in SaveOutcomes :
         /\ Inject(outcome # "ok")
         /\ lost' = (lost \/ outcome # "ok")
         /\ calls' = Append(calls, Call("Save", outcome = "ok"))
         /\ cur' = [cur EXCEPT !.id = id]
         /\ Tasks' = AddTask(Tasks, StartTask(id))
         /\ backing' = AddTask(Tasks, StartTask(id))
         /\ disk' = Save(outcome, Tasks', disk)
         /\ result' = IF outcome = "ok"
                      THEN Returned("start", "ok", "", <<>>, StartTask(id), FALSE)
                      ELSE Failed("start", "task created but failed to save")
    /\ pc' = "done"
    /\ UNCHANGED <<branches, worktrees, parents, pre>>
    /\ UNCHANGED <<registryVars, namingVars, persistVars, helperVars>>

FinishCmd == \E id \in IDs : Begin("finish", NoOpts, id, "finish_findTask")

\* Mutant of FinishFindTask: the not-found error of FindTask is dropped.
FinishFindTaskErrorDropped ==
    /\ pc = "finish_findTask"
    /\ LET i == FindTask(Tasks, cur.arg)
       IN  IF i = 0
           THEN /\ pc' = "done"
                /\ result' = Returned("finish", "ok", "", <<>>, NoTask, FALSE)
                /\ UNCHANGED cur
           ELSE /\ pc' = "finish_removeWorktree"
                /\ cur' = [cur EXCEPT !.ptr = i, !.found = Tasks[i]]
                /\ UNCHANGED result
    /\ UNCHANGED <<Tasks, backing, disk, branches, worktrees, parents, calls, pre, faults,
                 lost>>
    /\ UNCHANGED <<registryVars, namingVars, persistVars, helperVars>>

\* Manager.Finish: Config.FindTask; task points into the array under c.Tasks.
FinishFindTask ==
    /\ pc = "finish_findTask"
    /\ LET i == FindTask(Tasks, cur.arg)
       IN  IF i = 0
           THEN /\ pc' = "done"
                /\ result' = Failed("finish", "task not found")
                /\ UNCHANGED cur
           ELSE /\ pc' = "finish_removeWorktree"
                /\ cur' = [cur EXCEPT !.ptr = i, !.found = Tasks[i]]
                /\ UNCHANGED result
    /\ UNCHANGED <<Tasks, backing, disk, branches, worktrees, parents, calls, pre, faults,
                 lost>>
    /\ UNCHANGED <<registryVars, namingVars, persistVars, helperVars>>

\* Mutant of FinishRemoveWorktree: the error of worktree.Remove is dropped.
FinishRemoveWorktreeErrorIgnored ==
    /\ pc = "finish_removeWorktree"
    /\ LET task == backing[cur.ptr]
       IN  \E gitOk \in BOOLEAN :
             /\ Inject(~gitOk)
             /\ calls' = Append(calls, Call("Remove", gitOk /\ GitCanRemove(task.RepoPath,
                                                                         task.Worktree)))
             /\ worktrees' = IF gitOk
                             THEN {w \in worktrees :
                                     ~(w.repo = task.RepoPath /\ w.path = task.Worktree)}
                             ELSE worktrees
    /\ pc' = "finish_deleteBranch"
    /\ UNCHANGED <<cur, Tasks, backing, disk, branches, parents, result, pre, lost>>
    /\ UNCHANGED <<registryVars, namingVars, persistVars, helperVars>>

\* Manager.Finish: worktree.Remove; a failure ends the command.
FinishRemoveWorktree ==
    /\ pc = "finish_removeWorktree"
    /\ LET task == backing[cur.ptr]
       IN  \E gitOk \in BOOLEAN :
             /\ Inject(~gitOk)
             /\ calls' = Append(calls, Call("Remove", gitOk /\ GitCanRemove(task.RepoPath,
                                                                         task.Worktree)))
             /\ IF gitOk /\ GitCanRemove(task.RepoPath, task.Worktree)
                THEN /\ worktrees' = {w \in worktrees :
                                        ~(w.repo = task.RepoPath /\ w.path = task.Worktree)}
                     /\ pc' = "finish_deleteBranch"
                     /\ UNCHANGED result
                ELSE /\ pc' = "done"
                     /\ result' = Failed("finish", "failed to remove worktree")
                     /\ UNCHANGED worktrees
    /\ UNCHANGED <<cur, Tasks, backing, disk, branches, parents, pre, lost>>
    /\ UNCHANGED <<registryVars, namingVars, persistVars, helperVars>>

\* Mutant of FinishDeleteBranch: the error of worktree.DeleteBranch ends the command.
FinishDeleteBranchFatal ==
    /\ pc = "finish_deleteBranch"
    /\ LET task == backing[cur.ptr]
       IN  \E gitOk \in BOOLEAN :
             /\ Inject(~gitOk)
             /\ calls' = Append(calls, Call("DeleteBranch",
                                            gitOk /\ GitCanDeleteBranch(task.RepoPath,
                                                                        task.Branch)))
             /\ IF gitOk /\ GitCanDeleteBranch(task.RepoPath, task.Branch)
                THEN /\ branches' = branches \ {[repo |-> task.RepoPath,
                                                  name |-> task.Branch]}
                     /\ pc' = "finish_removeTask"
                     /\ UNCHANGED result
                ELSE /\ pc' = "done"
                     /\ result' = Failed("finish", "failed to delete branch")
                     /\ UNCHANGED branches
    /\ UNCHANGED <<cur, Tasks, backing, disk, worktrees, parents, pre, lost>>
    /\ UNCHANGED <<registryVars, namingVars, persistVars, helperVars>>

\* Manager.Finish: worktree.DeleteBranch; a failure is a warning on stderr.
FinishDeleteBranch ==
    /\ pc = "finish_deleteBranch"
    /\ LET task == backing[cur.ptr]
       IN  \E gitOk \in BOOLEAN :
             /\ Inject(~gitOk)
             /\ calls' = Append(calls, Call("DeleteBranch",
                                            gitOk /\ GitCanDeleteBranch(task.RepoPath,
                                                                        task.Branch)))
             /\ IF gitOk /\ GitCanDeleteBranch(task.RepoPath, task.Branch)
                THEN /\ branches' = branches \ {[repo |-> task.RepoPath,
                                                  name |-> task.Branch]}
                     /\ UNCHANGED cur
                ELSE /\ cur' = [cur EXCEPT !.branchDeleteFailed = TRUE]
                     /\ UNCHANGED branches
    /\ pc' = "finish_removeTask"
    /\ UNCHANGED <<Tasks, backing, disk, worktrees, parents, result, pre, lost>>
    /\ UNCHANGED <<registryVars, namingVars, persistVars, helperVars>>

\* Manager.Finish: Config.RemoveTask (cut the record out, then Save) and the
\* return of task, read through the pointer FindTask gave.
FinishRemoveTask ==
    /\ pc = "finish_removeTask"
    /\ LET i == FindTask(Tasks, cur.arg)
       IN  IF i = 0
           THEN /\ result' = Failed("finish", "task not found")
                /\ UNCHANGED <<Tasks, backing, disk, calls, faults, lost>>
           ELSE /\ Tasks' = RemoveAt(Tasks, i)
                /\ backing' = ShiftedArray(backing, i)
                /\ \E outcome \in SaveOutcomes :
                     /\ Inject(outcome # "ok")
                     /\ lost' = (lost \/ outcome # "ok")
                     /\ calls' = Append(calls, Call("Save", outcome = "ok"))
                     /\ disk' = Save(outcome, Tasks', disk)
                     /\ result' = IF outcome = "ok"
                                  THEN Returned("finish", "ok", "", <<>>, backing'[cur.ptr],
                                                cur.branchDeleteFailed)
                                  ELSE Failed("finish", "failed to save config")
    /\ pc' = "done"
    /\ UNCHANGED <<cur, branches, worktrees, parents, pre>>
    /\ UNCHANGED <<registryVars, namingVars, persistVars, helperVars>>

RemoveCmd == \E id \in IDs : Begin("remove", NoOpts, id, "remove_findTask")

\* Manager.Remove: Config.FindTask
RemoveFindTask ==
    /\ pc = "remove_findTask"
    /\ LET i == FindTask(Tasks, cur.arg)
       IN  IF i = 0
           THEN /\ pc' = "done"
                /\ result' = Failed("remove", "task not found")
                /\ UNCHANGED cur
           ELSE /\ pc' = "remove_removeWorktree"
                /\ cur' = [cur EXCEPT !.ptr = i, !.found = Tasks[i]]
                /\ UNCHANGED result
    /\ UNCHANGED <<Tasks, backing, disk, branches, worktrees, parents, calls, pre, faults,
                 lost>>
    /\ UNCHANGED <<registryVars, namingVars, persistVars, helperVars>>

\* Mutant of RemoveRemoveWorktree: the error of worktree.Remove is dropped.
RemoveRemoveWorktreeErrorIgnored ==
    /\ pc = "remove_removeWorktree"
    /\ LET task == backing[cur.ptr]
       IN  \E gitOk \in BOOLEAN :
             /\ Inject(~gitOk)
             /\ calls' = Append(calls, Call("Remove", gitOk /\ GitCanRemove(task.RepoPath,
                                                                         task.Worktree)))
             /\ worktrees' = IF gitOk
                             THEN {w \in worktrees :
                                     ~(w.repo = task.RepoPath /\ w.path = task.Worktree)}
                             ELSE worktrees
    /\ pc' = "remove_removeTask"
    /\ UNCHANGED <<cur, Tasks, backing, disk, branches, parents, result, pre, lost>>
    /\ UNCHANGED <<registryVars, namingVars, persistVars, helperVars>>

\* Manager.Remove: worktree.Remove; a failure ends the command.
RemoveRemoveWorktree ==
    /\ pc = "remove_removeWorktree"
    /\ LET task == backing[cur.ptr]
       IN  \E gitOk \in BOOLEAN :
             /\ Inject(~gitOk)
             /\ calls' = Append(calls, Call("Remove", gitOk /\ GitCanRemove(task.RepoPath,
                                                                         task.Worktree)))
             /\ IF gitOk /\ GitCanRemove(task.RepoPath, task.Worktree)
                THEN /\ worktrees' = {w \in worktrees :
                                        ~(w.repo = task.RepoPath /\ w.path = task.Worktree)}
                     /\ pc' = "remove_removeTask"
                     /\ UNCHANGED result
                ELSE /\ pc' = "done"
                     /\ result' = Failed("remove", "failed to remove worktree")
                     /\ UNCHANGED worktrees
    /\ UNCHANGED <<cur, Tasks, backing, disk, branches, parents, pre, lost>>
    /\ UNCHANGED <<registryVars, namingVars, persistVars, helperVars>>

\* Manager.Remove: Config.RemoveTask and the return of task.
RemoveRemoveTask ==
    /\ pc = "remove_removeTask"
    /\ LET i == FindTask(Tasks, cur.arg)
       IN  IF i = 0
           THEN /\ result' = Failed("remove", "task not found")
                /\ UNCHANGED <<Tasks, backing, disk, calls, faults, lost>>
           ELSE /\ Tasks' = RemoveAt(Tasks, i)
                /\ backing' = ShiftedArray(backing, i)
                /\ \E outcome \in SaveOutcomes :
                     /\ Inject(outcome # "ok")
                     /\ lost' = (lost \/ outcome # "ok")
                     /\ calls' = Append(calls, Call("Save", outcome = "ok"))
                     /\ disk' = Save(outcome, Tasks', disk)
                     /\ result' = IF outcome = "ok"
                                  THEN Returned("remove", "ok", "", <<>>, backing'[cur.ptr],
                                                FALSE)
                                  ELSE Failed("remove", "failed to save config")
    /\ pc' = "done"
    /\ UNCHANGED <<cur, branches, worktrees, parents, pre>>
    /\ UNCHANGED <<registryVars, namingVars, persistVars, helperVars>>

SwitchCmd == \E id \in IDs : Begin("switch", NoOpts, id, "switch_findTask")

\* switchCmd: Config.FindTask, then the path of the record is printed.
SwitchFindTask ==
    /\ pc = "switch_findTask"
    /\ LET i == FindTask(Tasks, cur.arg)
       IN  result' = IF i = 0
                     THEN Failed("switch", "task not found")
                     ELSE Returned("switch", "ok", "", <<>>, Tasks[i], FALSE)
    /\ pc' = "done"
    /\ UNCHANGED <<cur, Tasks, backing, disk, branches, worktrees, parents, calls, pre, faults,
                 lost>>
    /\ UNCHANGED <<registryVars, namingVars, persistVars, helperVars>>

\* A directory that is no working copy of a task.
Outside == <<<<"t","m","p">>>>

\* Config.FindTaskByWorktree: index of the first record with the path, 0 when
\* there is none.
FindTaskByWorktree(tasks, dir) ==
    IF \E i \in 1..Len(tasks) : tasks[i].Worktree = dir
    THEN CHOOSE i \in 1..Len(tasks) :
            /\ tasks[i].Worktree = dir
            /\ \A j \in 1..(i - 1) : tasks[j].Worktree # dir
    ELSE 0

StatusCmd == Begin("status", NoOpts, "", "status_findTask")

\* statusCmd: os.Getwd, Config.FindTaskByWorktree, then the record is printed,
\* or that the directory is no working copy of a task.
StatusFindTask ==
    /\ pc = "status_findTask"
    /\ \E getwdOk \in BOOLEAN, cwd \in {w.path : w \in worktrees} \cup {Outside} :
         /\ Inject(~getwdOk)
         /\ calls' = Append(calls, Call("Getwd", getwdOk))
         /\ cur' = [cur EXCEPT !.cwd = IF getwdOk THEN cwd ELSE <<>>]
         /\ result' = LET i == FindTaskByWorktree(Tasks, cwd)
                      IN  IF ~getwdOk THEN Failed("status", "getwd")
                          ELSE IF i = 0 THEN Returned("status", "ok", "", <<>>, NoTask, FALSE)
                          ELSE Returned("status", "ok", "", <<>>, Tasks[i], FALSE)
    /\ pc' = "done"
    /\ UNCHANGED <<Tasks, backing, disk, branches, worktrees, parents, pre, lost>>
    /\ UNCHANGED <<registryVars, namingVars, persistVars, helperVars>>

\* The command has returned: the cli prints the result and the process exits.
Exit ==
    /\ pc = "done"
    /\ pc' = "idle"
    /\ cur' = NoCur
    /\ Tasks' = <<>>
    /\ backing' = <<>>
    /\ calls' = <<>>
    /\ result' = NoResult
    /\ pre' = NoSnapshot
    /\ UNCHANGED <<disk, branches, worktrees, parents, faults, lost>>
    /\ UNCHANGED <<registryVars, namingVars, persistVars, helperVars>>

\* The process dies between two steps of a command.
Crash ==
    /\ pc \notin {"idle", "done"}
    /\ Inject(TRUE)
    /\ lost' = TRUE
    /\ pc' = "idle"
    /\ cur' = NoCur
    /\ Tasks' = <<>>
    /\ backing' = <<>>
    /\ calls' = <<>>
    /\ result' = NoResult
    /\ pre' = NoSnapshot
    /\ UNCHANGED <<disk, branches, worktrees, parents>>
    /\ UNCHANGED <<registryVars, namingVars, persistVars, helperVars>>

Next ==
    \/ StartCmd
    \/ StartRepoName
    \/ StartBranchExists
    \/ StartMkdirAll
    \/ StartCreate
    \/ StartAddTask
    \/ FinishCmd
    \/ FinishFindTask
    \/ FinishRemoveWorktree
    \/ FinishDeleteBranch
    \/ FinishRemoveTask
    \/ RemoveCmd
    \/ RemoveFindTask
    \/ RemoveRemoveWorktree
    \/ RemoveRemoveTask
    \/ SwitchCmd
    \/ SwitchFindTask
    \/ StatusCmd
    \/ StatusFindTask
    \/ Exit
    \/ Crash

Spec == Init /\ [][Next]_vars

TypeOK ==
    /\ pc \in {"idle", "done", "start_repoName", "start_branchExists", "start_mkdirAll",
               "start_create", "start_addTask", "finish_findTask", "finish_removeWorktree",
               "finish_deleteBranch", "finish_removeTask", "remove_findTask",
               "remove_removeWorktree", "remove_removeTask", "switch_findTask",
               "status_findTask"}
    /\ Len(Tasks) <= MaxTasks
    /\ Len(disk.tasks) <= MaxTasks
    /\ disk.corrupt \in BOOLEAN

\* ------------------------------------------------ Config through its methods

\* The goroutines make at most this many calls between them.
MaxCalls == 3

\* The Task the cli would register for a description in /a/app.
TaskFor(id, description) ==
    NewTask(id, description, StartWorktreePath(RepoBase("/a/app"), description),
            BranchName(BranchPrefix, description), "/a/app", "", <<>>)

\* The calls made: AddTask(t), RemoveTask(id), SetConnector("jira", cc).
RegistryCalls ==
    {RegistryCall("AddTask", t, "", "", "") : t \in {TaskFor("wt-1", AB), TaskFor("wt-2", Fix)}}
    \cup {RegistryCall("RemoveTask", NoTask, id, "", "") : id \in IDs}
    \cup {RegistryCall("SetConnector", NoTask, "", "jira", cc) : cc \in {"url-1", "url-2"}}

InProgress(g) == gor[g].pc # "idle"

HasReturned(g) == gor[g].pc = "idle" /\ gor[g].call # NoCall

\* Config.SetConnector, in memory: c.Connectors[name] = cc
SetConnector(connectors, name, cc) ==
    {x \in connectors : x.name # name} \cup {[name |-> name, cc |-> cc]}

\* Config.Save: the file after the call, for the marshalled Config `data`.
SaveDocument(outcome, data, old) ==
    LET d == Save(outcome, data.Tasks, [corrupt |-> old.corrupt, tasks |-> old.tasks])
    IN  [corrupt |-> d.corrupt, tasks |-> d.tasks,
         connectors |-> CASE outcome = "ok"        -> data.Connectors
                          [] outcome = "untouched" -> old.connectors
                          [] OTHER                 -> {}]

\* The first step of a method.
FirstStep(op) ==
    CASE op = "AddTask"      -> "addTask_read"
      [] op = "RemoveTask"   -> "removeTask"
      [] op = "SetConnector" -> "setConnector"

\* A goroutine calls a method of the Config.  Calls of AddTask may overlap;
\* RemoveTask and SetConnector are called with no other call in progress.
CallMethod(g) ==
    /\ gor[g].pc = "idle"
    /\ gor["g1"].n + gor["g2"].n < MaxCalls
    /\ \E call \in RegistryCalls :
         /\ call.op # "AddTask" => \A h \in Goroutines : ~InProgress(h)
         /\ \A h \in Goroutines : InProgress(h) => gor[h].call.op = "AddTask"
         /\ gor' = [gor EXCEPT ![g] = [pc |-> FirstStep(call.op), call |-> call,
                                       read |-> <<>>, data |-> NoGoroutine.data,
                                       err |-> "", n |-> gor[g].n + 1]]
    /\ UNCHANGED <<cfg, file, mu, faults, cliVars, namingVars, persistVars, helperVars>>

\* Config.AddTask: c.Tasks is read for the append.
AddTaskRead(g) ==
    /\ gor[g].pc = "addTask_read"
    /\ gor' = [gor EXCEPT ![g].read = cfg.Tasks, ![g].pc = "addTask_assign"]
    /\ UNCHANGED <<cfg, file, mu, faults, cliVars, namingVars, persistVars, helperVars>>

\* Config.AddTask: c.Tasks = append(<what was read>, t); no lock is held.
AddTaskAssign(g) ==
    /\ gor[g].pc = "addTask_assign"
    /\ cfg' = [cfg EXCEPT !.Tasks = AddTask(gor[g].read, gor[g].call.t)]
    /\ gor' = [gor EXCEPT ![g].pc = "save_lock"]
    /\ UNCHANGED <<file, mu, faults, cliVars, namingVars, persistVars, helperVars>>

\* Config.RemoveTask: the first record with the id is cut out; without one
\* the method returns not-found and saves nothing.
RemoveTask(g) ==
    /\ gor[g].pc = "removeTask"
    /\ LET i == FindTask(cfg.Tasks, gor[g].call.id)
       IN  IF i = 0
           THEN /\ gor' = [gor EXCEPT ![g].pc = "idle", ![g].err = "task not found"]
                /\ UNCHANGED cfg
           ELSE /\ cfg' = [cfg EXCEPT !.Tasks = RemoveAt(cfg.Tasks, i)]
                /\ gor' = [gor EXCEPT ![g].pc = "save_lock"]
    /\ UNCHANGED <<file, mu, faults, cliVars, namingVars, persistVars, helperVars>>

\* Config.SetConnector: the map entry is set.
SetConnectorPut(g) ==
    /\ gor[g].pc = "setConnector"
    /\ cfg' = [cfg EXCEPT !.Connectors = SetConnector(cfg.Connectors, gor[g].call.name,
                                                      gor[g].call.cc)]
    /\ gor' = [gor EXCEPT ![g].pc = "save_lock"]
    /\ UNCHANGED <<file, mu, faults, cliVars, namingVars, persistVars, helperVars>>

\* Config.Save: c.mu.Lock()
SaveLock(g) ==
    /\ gor[g].pc = "save_lock"
    /\ mu = "free"
    /\ mu' = g
    /\ gor' = [gor EXCEPT ![g].pc = "save_marshal"]
    /\ UNCHANGED <<cfg, file, faults, cliVars, namingVars, persistVars, helperVars>>

\* Config.Save: yaml.Marshal(c) reads the Config as it is now.
SaveMarshal(g) ==
    /\ gor[g].pc = "save_marshal"
    /\ gor' = [gor EXCEPT ![g].data = cfg, ![g].pc = "save_writeFile"]
    /\ UNCHANGED <<cfg, file, mu, faults, cliVars, namingVars, persistVars, helperVars>>

\* Mutant of SaveWriteFile: the error of os.WriteFile is not returned.
SaveWriteFileErrorDropped(g) ==
    /\ gor[g].pc = "save_writeFile"
    /\ \E outcome \in SaveOutcomes :
         /\ Inject(outcome # "ok")
         /\ file' = SaveDocument(outcome, gor[g].data, file)
    /\ gor' = [gor EXCEPT ![g].pc = "idle", ![g].err = ""]
    /\ mu' = "free"
    /\ UNCHANGED <<cfg, cliVars, namingVars, persistVars, helperVars>>

\* Config.Save: MkdirAll and os.WriteFile, the deferred Unlock, and the
\* return of the method that called Save.
SaveWriteFile(g) ==
    /\ gor[g].pc = "save_writeFile"
    /\ \E outcome \in SaveOutcomes :
         /\ Inject(outcome # "ok")
         /\ file' = SaveDocument(outcome, gor[g].data, file)
         /\ gor' = [gor EXCEPT ![g].pc = "idle",
                               ![g].err = IF outcome = "ok" THEN ""
                                          ELSE "failed to save config"]
    /\ mu' = "free"
    /\ UNCHANGED <<cfg, cliVars, namingVars, persistVars, helperVars>>

NextRegistry ==
    \/ \E g \in Goroutines : CallMethod(g)
    \/ \E g \in Goroutines : AddTaskRead(g)
    \/ \E g \in Goroutines : AddTaskAssign(g)
    \/ \E g \in Goroutines : RemoveTask(g)
    \/ \E g \in Goroutines : SetConnectorPut(g)
    \/ \E g \in Goroutines : SaveLock(g)
    \/ \E g \in Goroutines : SaveMarshal(g)
    \/ \E g \in Goroutines : SaveWriteFile(g)

SpecRegistry == Init /\ [][NextRegistry]_vars

\* ------------------------------------------------ the naming functions, called

Repeat(ch, n) == [i \in 1..n |-> ch]

\* Texts and keys the functions are called with: the ones of the cli above,
\* the empty text, keys with a character outside [a-z0-9-], and texts whose
\* names pass the length cap, with and without a hyphen where the cut falls,
\* a text with blanks and hyphens around it, and one with a run inside.
Underscored == <<"P","_","1">>
Spaced == <<"P"," ","1">>
Long == Repeat("a", MaxBranchLen) \o <<" ","b">>
LongHyphenAtCut == Repeat("a", MaxBranchLen - 1) \o <<" ","b">>
LongHyphenAtTicketCut == Repeat("a", MaxBranchLen - 5) \o <<" ","b">>
Padded == <<" ","-","F","i","x","-","\t">>
Runs == <<"A",","," ","b","1">>

NamingCalls ==
    [fn : {"SanitizeBranchName", "BranchName", "BranchNameFromTicket"},
     prefix : {<<>>, BranchPrefix},
     key : {P1, Underscored, Spaced},
     text : {<<>>, Fix, FixBang, AB, Bang, Long, LongHyphenAtCut, LongHyphenAtTicketCut,
             Padded, Runs}]

\* One call is about to be made.
InitNaming ==
    /\ CliInit
    /\ faults = 0
    /\ RegistryInit
    /\ args \in NamingCalls
    /\ got = NoName
    /\ PersistInit
    /\ HelperInit

CallSanitizeBranchName ==
    /\ args.fn = "SanitizeBranchName"
    /\ ~got.returned
    /\ got' = [returned |-> TRUE, name |-> SanitizeBranchName(args.text)]
    /\ UNCHANGED <<args, cliVars, faults, registryVars, persistVars, helperVars>>

CallBranchName ==
    /\ args.fn = "BranchName"
    /\ ~got.returned
    /\ got' = [returned |-> TRUE, name |-> BranchName(args.prefix, args.text)]
    /\ UNCHANGED <<args, cliVars, faults, registryVars, persistVars, helperVars>>

CallBranchNameFromTicket ==
    /\ args.fn = "BranchNameFromTicket"
    /\ ~got.returned
    /\ got' = [returned |-> TRUE,
               name |-> BranchNameFromTicket(args.prefix, args.key, args.text)]
    /\ UNCHANGED <<args, cliVars, faults, registryVars, persistVars, helperVars>>

NextNaming ==
    \/ CallSanitizeBranchName
    \/ CallBranchName
    \/ CallBranchNameFromTicket

SpecNaming == InitNaming /\ [][NextNaming]_vars

\* ------------------------------------------------------ save and load again

\* Records as Start leaves them in memory (Created is time.Now()), one of a
\* Jira issue, and one as Load returns it, described by the word null.  The
\* Configs that hold them have an alias for the default agent they name.
PersistTasks ==
    { StoredTask(TaskFor("wt-1", Fix), Time(1, TRUE)),
      StoredTask(NewTask("wt-2", AB, StartWorktreePath(RepoBase("/a/app"), AB),
                         BranchNameFromTicket(BranchPrefix, P1, AB), "/a/app", "jira", P1),
                 Time(2, TRUE)),
      StoredTask(TaskFor("wt-2", Null), Time(1, FALSE)) }

PersistConfigs ==
    { c \in [WorktreesBase : {WorktreesBase, <<"w","t">>},
             DefaultBranch : {Main, <<"d","e","v">>},
             BranchPrefix  : {<<>>, BranchPrefix},
             DefaultAgent  : {"", "claude"},
             AgentAliases  : {{}, {[alias |-> "c", agent |-> "claude"]}},
             Connectors    : {{}, {[name |-> "jira", cc |-> "url-1"]},
                              {[name |-> "jira", cc |-> ""]}},
             Tasks         : UNION {[1..n -> PersistTasks] : n \in 0..MaxTasks}] :
        (c.AgentAliases = {}) <=> (c.DefaultAgent = "") }

\* A Config is in memory and no file is written yet.
InitPersist ==
    /\ CliInit
    /\ faults = 0
    /\ RegistryInit
    /\ args = NoArgs
    /\ got = NoName
    /\ mem \in PersistConfigs
    /\ doc = NoFile
    /\ loaded = NoLoad
    /\ phase = "made"
    /\ HelperInit

\* c.Save()
PersistSave ==
    /\ phase = "made"
    /\ \E outcome \in {"ok", "untouched", "truncated", "partial"} :
        /\ doc' = WriteDocument(outcome, mem, doc)
        /\ phase' = IF outcome = "ok" THEN "saved" ELSE "failed"
    /\ UNCHANGED <<mem, loaded, cliVars, faults, registryVars, namingVars, helperVars>>

\* config.Load()
PersistLoad ==
    /\ phase \in {"saved", "failed"}
    /\ \E readOk \in BOOLEAN :
         LET l == Load(doc, readOk)
         IN  loaded' = [NoLoad EXCEPT !.done = TRUE, !.after = phase, !.err = l.err,
                                      !.isNil = l.isNil, !.cfg = l.cfg]
    /\ phase' = "loaded"
    /\ UNCHANGED <<mem, doc, cliVars, faults, registryVars, namingVars, helperVars>>

\* The next process goes on with what it loaded, and saves that.
PersistGoOn ==
    /\ phase = "loaded"
    /\ loaded.err = ""
    /\ mem' = loaded.cfg
    /\ loaded' = NoLoad
    /\ phase' = "made"
    /\ UNCHANGED <<doc, cliVars, faults, registryVars, namingVars, helperVars>>

\* The keys `wt config` is given, one of them not a key, and the value for each.
GivenKeys == ConfigKeys \cup {"colour"}

GivenValue(key) == IF key = "default_agent" THEN "codex" ELSE <<"x">>

\* configCmd with a key (set: and a value): loadConfig, the switch on the
\* key, and cfg.Save() when a field was set.
PersistConfig ==
    /\ phase \in {"saved", "failed"}
    /\ \E key \in GivenKeys, set \in BOOLEAN :
         LET ran == [NoLoad EXCEPT !.done = TRUE, !.after = "config", !.key = key, !.set = set]
         IN  \/ /\ doc.exists
                /\ loaded' = [ran EXCEPT !.err = Load(doc, FALSE).err]
                /\ doc' = doc
             \/ LET l == Load(doc, TRUE)
                    r == IF set THEN ConfigSet(l.cfg, key, GivenValue(key))
                         ELSE ConfigGet(l.cfg, key)
                IN  IF l.err # ""
                    THEN /\ loaded' = [ran EXCEPT !.err = l.err]
                         /\ doc' = doc
                    ELSE IF set /\ r.err = ""
                    THEN \E outcome \in {"ok", "untouched", "truncated", "partial"} :
                           /\ doc' = WriteDocument(outcome, r.cfg, doc)
                           /\ loaded' = [ran EXCEPT !.isNil = FALSE, !.cfg = r.cfg,
                                                    !.err = IF outcome = "ok" THEN ""
                                                            ELSE "failed to save"]
                    ELSE /\ loaded' = [ran EXCEPT !.isNil = FALSE, !.cfg = r.cfg,
                                                  !.err = r.err]
                         /\ doc' = doc
    /\ phase' = "configured"
    /\ UNCHANGED <<mem, cliVars, faults, registryVars, namingVars, helperVars>>

NextPersist ==
    \/ PersistSave
    \/ PersistLoad
    \/ PersistConfig
    \/ PersistGoOn

SpecPersist == InitPersist /\ [][NextPersist]_vars

\* ------------------------------------------------- calls of the helpers

\* The listing has at most this many lines.
MaxLines == 4

\* Lines of a listing: two working copies, a commit, a branch, the mark of a
\* bare repository, and two lines whose tag parseWorktreeList does not know.
ListingLines ==
    { Blank, Line("worktree", "/a"), Line("worktree", "/b"), Line("HEAD", "h1"),
      Line("branch", "b1"), Line("bare", ""), Line("detached", ""), Line("locked", "why") }

\* git writes the worktree line first in every record.
StartsRecord(lines, i) == lines[i] # Blank /\ (i = 1 \/ lines[i - 1] = Blank)

Listings ==
    { lines \in UNION {[1..n -> ListingLines] : n \in 0..MaxLines} :
        \A i \in 1..Len(lines) : StartsRecord(lines, i) => HasTag(lines[i], "worktree") }

\* The value of --agent-args has at most this many characters.
MaxArgsLen == 5

\* Values of --agent-args: letters, spaces and the two quotes.
ArgTexts == UNION {[1..n -> {"a", " ", "\"", "'"}] : n \in 0..MaxArgsLen}

\* --agent, WT_AGENT and default_agent: each empty or set, to its own name.
AgentSources == [flag : {"", "claude"}, env : {"", "codex"}, def : {"", "aider"}]

HelperCalls ==
    {[NoHelperCall EXCEPT !.fn = "parseWorktreeList", !.lines = lines] : lines \in Listings}
    \cup {[NoHelperCall EXCEPT !.fn = fn, !.flag = a.flag, !.env = a.env, !.def = a.def] :
            fn \in {"startCmd", "agentCmd"}, a \in AgentSources}
    \cup {[NoHelperCall EXCEPT !.fn = "ParseAgentArgs", !.text = text] : text \in ArgTexts}

\* One call of a helper is about to be made.
InitHelpers ==
    /\ CliInit
    /\ faults = 0
    /\ RegistryInit
    /\ args = NoArgs
    /\ got = NoName
    /\ PersistInit
    /\ req \in HelperCalls
    /\ ret = NoReturn

CallParseWorktreeList ==
    /\ req.fn = "parseWorktreeList"
    /\ ~ret.returned
    /\ ret' = [NoReturn EXCEPT !.returned = TRUE, !.infos = parseWorktreeList(req.lines)]
    /\ UNCHANGED <<req, cliVars, faults, registryVars, namingVars, persistVars>>

\* startCmd, after a Start that succeeded: the agent is chosen.
CallStartAgentName ==
    /\ req.fn = "startCmd"
    /\ ~ret.returned
    /\ ret' = [NoReturn EXCEPT !.returned = TRUE,
                               !.name = StartAgentName(req.flag, req.env, req.def)]
    /\ UNCHANGED <<req, cliVars, faults, registryVars, namingVars, persistVars>>

\* agentCmd, with the task found and its directory there: the agent is chosen.
CallAgentCmdAgentName ==
    /\ req.fn = "agentCmd"
    /\ ~ret.returned
    /\ ret' = [NoReturn EXCEPT !.returned = TRUE,
                               !.name = AgentCmdAgentName(req.flag, req.env, req.def)]
    /\ UNCHANGED <<req, cliVars, faults, registryVars, namingVars, persistVars>>

CallParseAgentArgs ==
    /\ req.fn = "ParseAgentArgs"
    /\ ~ret.returned
    /\ ret' = [NoReturn EXCEPT !.returned = TRUE, !.args = ParseAgentArgs(req.text)]
    /\ UNCHANGED <<req, cliVars, faults, registryVars, namingVars, persistVars>>

NextHelpers ==
    \/ CallParseWorktreeList
    \/ CallStartAgentName
    \/ CallAgentCmdAgentName
    \/ CallParseAgentArgs

SpecHelpers == InitHelpers /\ [][NextHelpers]_vars

\* ------------------------------------------------------------------ claims

Count(r, tasks) == Cardinality({i \in 1..Len(tasks) : tasks[i] = r})

\* A directory exists at the path: some working copy lives there.
PathLive(path) == \E w \in worktrees : w.path = path

RegistryUnchanged == Tasks = pre.tasks /\ disk = pre.disk

\* C1: when BranchExists reports the computed branch as existing, Start ends
\* there with the collision error naming that branch; worktree.Create is not
\* invoked and the registry is as it was, in memory and on disk.
C1_CollisionRefused ==
    (cur.cmd = "start" /\ Called("BranchExists", TRUE)) =>
        /\ pc = "done"
        /\ result.status = "error"
        /\ result.err = "branch already exists"
        /\ result.branch = cur.branch
        /\ result.branch = StartBranch(cur.opts)
        /\ ~Invoked("Create")
        /\ ~Invoked("Save")
        /\ RegistryUnchanged
        /\ worktrees = pre.worktrees

C1_Witness ==
    /\ pc = "done"
    /\ cur.cmd = "start"
    /\ Called("BranchExists", TRUE)
    /\ result.err = "branch already exists"
    /\ Len(pre.tasks) > 0

\* C2: during Finish and Remove the record of the task they were given is
\* dropped, in memory or on disk, only once no directory is left at its
\* worktree path; this holds in every intermediate state, which is the state
\* a crash at that point leaves behind.
C2_RecordDroppedAfterWorktree ==
    (/\ cur.cmd \in {"finish", "remove"}
     /\ cur.ptr # 0
     /\ \/ Count(cur.found, Tasks) < Count(cur.found, pre.tasks)
        \/ Count(cur.found, disk.tasks) < Count(cur.found, pre.disk.tasks)
        \/ disk.corrupt)
    => ~PathLive(cur.found.Worktree)

C2_Witness ==
    /\ cur.cmd \in {"finish", "remove"}
    /\ cur.ptr # 0
    /\ Count(cur.found, disk.tasks) < Count(cur.found, pre.disk.tasks)
    /\ PathLive(cur.found.Worktree) = FALSE
    /\ Len(disk.tasks) > 0

\* C3: when worktree.Create fails, Start ends there with that error and the
\* registry is as it was, in memory and on disk.
C3_CreateFailureWritesNothing ==
    (cur.cmd = "start" /\ Called("Create", FALSE)) =>
        /\ pc = "done"
        /\ result.status = "error"
        /\ result.err = "failed to create worktree"
        /\ ~Invoked("Save")
        /\ RegistryUnchanged

C3_Witness ==
    /\ pc = "done"
    /\ cur.cmd = "start"
    /\ Called("Create", FALSE)
    /\ result.err = "failed to create worktree"
    /\ Len(pre.tasks) > 0

\* C4: when the save of AddTask fails after worktree.Create succeeded, Start
\* returns the error "task created but failed to save", which no other failure
\* of Start produces, and rolls nothing back: the working copy and the branch
\* that were created are still there.
C4_OrphanReported ==
    /\ (cur.cmd = "start" /\ Called("Save", FALSE)) =>
          /\ pc = "done"
          /\ result.status = "error"
          /\ result.err = "task created but failed to save"
          /\ Called("Create", TRUE)
          /\ [path |-> cur.wtPath, repo |-> cur.opts.RepoPath, branch |-> cur.branch]
                \in worktrees
          /\ GitBranchExists(cur.opts.RepoPath, cur.branch)
          /\ ~Invoked("Remove")
          /\ ~Invoked("DeleteBranch")
    /\ (cur.cmd = "start" /\ result.err = "task created but failed to save") =>
          Called("Create", TRUE) /\ Called("Save", FALSE)

C4_Witness ==
    /\ pc = "done"
    /\ cur.cmd = "start"
    /\ Called("Create", TRUE)
    /\ Called("Save", FALSE)
    /\ result.err = "task created but failed to save"

\* C5: when worktree.Remove fails in Finish or Remove, the command ends there
\* with an error, DeleteBranch is not invoked, and the record is still in the
\* registry, in memory and on disk.
C5_RemoveFailureKeepsRecord ==
    (cur.cmd \in {"finish", "remove"} /\ Called("Remove", FALSE)) =>
        /\ pc = "done"
        /\ result.status = "error"
        /\ result.err = "failed to remove worktree"
        /\ ~Invoked("DeleteBranch")
        /\ ~Invoked("Save")
        /\ RegistryUnchanged
        /\ Tasks[cur.ptr] = cur.found
        /\ disk.tasks[cur.ptr] = cur.found
        /\ branches = pre.branches

C5_Witness ==
    /\ pc = "done"
    /\ cur.cmd = "remove"
    /\ Called("Remove", FALSE)
    /\ result.err = "failed to remove worktree"

\* C6: when worktree.DeleteBranch fails in Finish, Finish goes on to
\* RemoveTask; if the save succeeds Finish returns success with a warning and
\* the record it looked up is out of the registry, in memory and on disk.
C6_BranchDeleteFailureNotFatal ==
    (cur.cmd = "finish" /\ Called("DeleteBranch", FALSE)) =>
        /\ pc \in {"finish_removeTask", "done"}
        /\ pc = "done" => Invoked("Save")
        /\ (pc = "done" /\ Called("Save", TRUE)) =>
              /\ result.status = "ok"
              /\ result.warned
              /\ Tasks = RemoveAt(pre.tasks, cur.ptr)
              /\ disk = [corrupt |-> FALSE, tasks |-> RemoveAt(pre.tasks, cur.ptr)]

C6_Witness ==
    /\ pc = "done"
    /\ cur.cmd = "finish"
    /\ Called("DeleteBranch", FALSE)
    /\ Called("Save", TRUE)
    /\ result.status = "ok"
    /\ result.warned

\* The working copy a record stands for.
WorktreeOf(t) == [path |-> t.Worktree, repo |-> t.RepoPath, branch |-> t.Branch]

\* Every record on disk has its working copy, every working copy its record,
\* one for one.
RecordIffWorktree ==
    /\ ~disk.corrupt
    /\ \A i \in 1..Len(disk.tasks) : WorktreeOf(disk.tasks[i]) \in worktrees
    /\ \A w \in worktrees : \E i \in 1..Len(disk.tasks) : WorktreeOf(disk.tasks[i]) = w
    /\ Len(disk.tasks) = Cardinality(worktrees)

C8_ReturnsRequestedTask ==
    (pc = "done" /\ cur.cmd \in {"finish", "remove"} /\ result.status = "ok") =>
        result.task = cur.found

\* C9: after a successful Finish(id) no directory is left at the task's
\* worktree path and FindTask(id) finds nothing, in memory or on disk.
C9_FinishedTaskGone ==
    (pc = "done" /\ cur.cmd = "finish" /\ result.status = "ok") =>
        /\ ~PathLive(cur.found.Worktree)
        /\ FindTask(Tasks, cur.arg) = 0
        /\ FindTask(disk.tasks, cur.arg) = 0

\* C10 as stated: a successful Remove removes the working copy, then the
\* record, invokes no branch deletion, and the task's branch exists afterwards.
C10_RemoveKeepsBranch ==
    (pc = "done" /\ cur.cmd = "remove" /\ result.status = "ok") =>
        /\ calls = <<Call("Load", TRUE), Call("Remove", TRUE), Call("Save", TRUE)>>
        /\ ~PathLive(cur.found.Worktree)
        /\ Tasks = RemoveAt(pre.tasks, cur.ptr)
        /\ disk.tasks = RemoveAt(pre.tasks, cur.ptr)
        /\ GitBranchExists(cur.found.RepoPath, cur.found.Branch)

\* C11: after a successful Start, FindTask on the id Start returned finds, in
\* memory and in the file, the record of the working copy Start created: its
\* worktree path is the directory that was created, which exists, and its
\* branch is the branch that was created.
C11_StartedTaskFound ==
    (pc = "done" /\ cur.cmd = "start" /\ result.status = "ok") =>
        LET i == FindTask(Tasks, result.task.ID)
            j == FindTask(disk.tasks, result.task.ID)
        IN  /\ i # 0
            /\ j # 0
            /\ Tasks[i].Worktree = cur.wtPath
            /\ Tasks[i].Branch = cur.branch
            /\ disk.tasks[j] = Tasks[i]
            /\ WorktreeOf(Tasks[i]) \in worktrees
            /\ GitBranchExists(Tasks[i].RepoPath, Tasks[i].Branch)

\* C12: Finish and Remove given an id that no record of the loaded registry
\* has return the not-found error, invoke nothing of git, and leave the
\* registry as it was, in memory and in the file.
C12_NotFoundTouchesNothing ==
    (/\ cur.cmd \in {"finish", "remove"}
     /\ Called("Load", TRUE)
     /\ FindTask(pre.tasks, cur.arg) = 0)
    => /\ pc \in {"finish_findTask", "remove_findTask", "done"}
       /\ calls = <<Call("Load", TRUE)>>
       /\ RegistryUnchanged
       /\ branches = pre.branches
       /\ worktrees = pre.worktrees
       /\ pc = "done" => /\ result.status = "error"
                         /\ result.err = "task not found"
                         /\ result.task = NoTask

C12_Witness ==
    /\ pc = "done"
    /\ cur.cmd = "finish"
    /\ FindTask(pre.tasks, cur.arg) = 0
    /\ Len(pre.tasks) > 0
    /\ result.err = "task not found"
    /\ worktrees # {}

\* C13: no two records of the registry, in memory or in the file, have the
\* same id, whatever ids generateID returned.
C13_UniqueIds ==
    /\ \A i, j \in 1..Len(Tasks) : i # j => Tasks[i].ID # Tasks[j].ID
    /\ \A i, j \in 1..Len(disk.tasks) : i # j => disk.tasks[i].ID # disk.tasks[j].ID

\* C14: no two records of the registry, in memory or in the file, have the
\* same worktree path.
C14_UniqueWorktreePaths ==
    /\ \A i, j \in 1..Len(Tasks) : i # j => Tasks[i].Worktree # Tasks[j].Worktree
    /\ \A i, j \in 1..Len(disk.tasks) :
          i # j => disk.tasks[i].Worktree # disk.tasks[j].Worktree

\* C15: no two records of the registry for one repository have the same
\* branch: a Start that would add the second one is refused.
C15_UniqueBranchPerRepo ==
    \A i, j \in 1..Len(disk.tasks) :
        (i # j /\ disk.tasks[i].RepoPath = disk.tasks[j].RepoPath)
            => disk.tasks[i].Branch # disk.tasks[j].Branch

\* C16: when each goroutine has made one call, of AddTask, and both calls
\* have returned without error, both records are in the task list in memory
\* and in the file.
C16_BothAddsSurvive ==
    (\A g \in Goroutines : /\ HasReturned(g)
                          /\ gor[g].call.op = "AddTask"
                          /\ gor[g].err = ""
                          /\ gor[g].n = 1)
    => /\ Len(cfg.Tasks) = Cardinality(Goroutines)
       /\ Len(file.tasks) = Cardinality(Goroutines)
       /\ \A g \in Goroutines : /\ Count(gor[g].call.t, cfg.Tasks) > 0
                                /\ Count(gor[g].call.t, file.tasks) > 0

\* C17: after a command has called Save, the file is the complete old
\* document when Save failed and the complete new one when it succeeded.
C17_SaveAllOrNothing ==
    (pc = "done" /\ Invoked("Save")) =>
        /\ Called("Save", FALSE) => disk = pre.disk
        /\ Called("Save", TRUE) => disk = [corrupt |-> FALSE, tasks |-> Tasks]

\* C18: when AddTask, RemoveTask or SetConnector has returned without error
\* to the one goroutine that uses the Config, the file holds exactly the
\* tasks and the connectors that are in memory.
C18_SavedEqualsMemory ==
    \A g \in Goroutines :
        (/\ HasReturned(g)
         /\ gor[g].err = ""
         /\ \A h \in Goroutines \ {g} : gor[h].n = 0)
        => file = [corrupt |-> FALSE, tasks |-> cfg.Tasks, connectors |-> cfg.Connectors]

C18_Witness ==
    /\ HasReturned("g1")
    /\ gor["g1"].call.op = "SetConnector"
    /\ gor["g1"].err = ""
    /\ gor["g2"].n = 0
    /\ faults > 0
    /\ Len(cfg.Tasks) > 0
    /\ file.tasks = cfg.Tasks

\* C19: a Start whose description has an empty slug ends with an error before
\* the branch probe, MkdirAll or worktree.Create is invoked, and saves nothing.
C19_EmptySlugRefused ==
    (cur.cmd = "start" /\ SanitizeBranchName(cur.opts.Description) = <<>>) =>
        /\ ~Invoked("BranchExists")
        /\ ~Invoked("MkdirAll")
        /\ ~Invoked("Create")
        /\ ~Invoked("Save")
        /\ pc = "done" => result.status = "error"

\* sanitize(ticketKey) + "-" + sanitize(summary), cut to the cap with the
\* trailing hyphens trimmed, behind prefix + "/" when there is a prefix.
SanitizedTicketName(prefix, ticketKey, summary) ==
    LET name == CapLength(SanitizeBranchName(ticketKey) \o <<"-">>
                          \o SanitizeBranchName(summary))
    IN  IF prefix = <<>> THEN name ELSE prefix \o <<"/">> \o name

\* C20: BranchNameFromTicket returns sanitize(ticketKey) + "-" +
\* sanitize(summary), cut to 60 characters with trailing hyphens trimmed,
\* behind prefix + "/" exactly when the prefix is not empty.
C20_TicketKeySanitized ==
    (got.returned /\ args.fn = "BranchNameFromTicket") =>
        got.name = SanitizedTicketName(args.prefix, args.key, args.text)

\* C21: SanitizeBranchName applied to what SanitizeBranchName returned
\* returns it unchanged.
C21_SanitizeIdempotent ==
    (got.returned /\ args.fn = "SanitizeBranchName") =>
        SanitizeBranchName(got.name) = got.name

C21_Witness ==
    /\ got.returned
    /\ args.fn = "SanitizeBranchName"
    /\ args.text = LongHyphenAtCut
    /\ got.name = Repeat("a", MaxBranchLen - 1)

\* C22: what SanitizeBranchName returns has at most 60 characters and,
\* unless it is empty, neither starts nor ends with a hyphen.
C22_SlugBounded ==
    (got.returned /\ args.fn = "SanitizeBranchName") =>
        /\ Len(got.name) <= MaxBranchLen
        /\ got.name # <<>> => (got.name[1] # "-" /\ got.name[Len(got.name)] # "-")

C22_Witness ==
    /\ got.returned
    /\ args.fn = "SanitizeBranchName"
    /\ args.text = Long
    /\ Len(got.name) = MaxBranchLen

\* The slug as the contract words it.  Lowercase; keep the characters of
\* [a-z0-9] and put one hyphen where a run of other characters begins;
LoweredCollapsed(text) ==
    LET low == ToLower(text)
        at == SelectSeq([i \in 1..Len(low) |-> i],
                        LAMBDA i : IsSlugChar(low[i]) \/ i = 1 \/ IsSlugChar(low[i - 1]))
    IN  [k \in 1..Len(at) |-> IF IsSlugChar(low[at[k]]) THEN low[at[k]] ELSE "-"]

\* keep what lies between the first and the last character that is no hyphen;
Between(s) ==
    LET solid == {i \in 1..Len(s) : s[i] # "-"}
    IN  IF solid = {} THEN <<>>
        ELSE SubSeq(s, CHOOSE i \in solid : \A j \in solid : i <= j,
                       CHOOSE i \in solid : \A j \in solid : j <= i)

\* cut to the cap, then drop the hyphens the cut left at the end.
ReferenceSlug(text) ==
    LET t == Between(LoweredCollapsed(text))
        cut == IF Len(t) > MaxBranchLen THEN SubSeq(t, 1, MaxBranchLen) ELSE t
        solid == {i \in 1..Len(cut) : cut[i] # "-"}
    IN  SubSeq(cut, 1, CHOOSE i \in solid \cup {0} : \A j \in solid : j <= i)

\* C23: SanitizeBranchName returns, for every text, the slug of the
\* contract, and the empty slug for the empty text.
C23_SlugIsReference ==
    (got.returned /\ args.fn = "SanitizeBranchName") =>
        /\ got.name = ReferenceSlug(args.text)
        /\ args.text = <<>> => got.name = <<>>

C23_Witness ==
    /\ got.returned
    /\ args.fn = "SanitizeBranchName"
    /\ args.text = Runs
    /\ got.name = <<"a","-","b","1">>

\* C24: BranchName returns prefix + "/" + sanitize(description) for a prefix
\* that is not empty, and sanitize(description) for the empty prefix.
C24_BranchNameOfPrefix ==
    (got.returned /\ args.fn = "BranchName") =>
        /\ args.prefix # <<>> =>
              got.name = args.prefix \o <<"/">> \o SanitizeBranchName(args.text)
        /\ args.prefix = <<>> => got.name = SanitizeBranchName(args.text)

C24_Witness ==
    /\ got.returned
    /\ args.fn = "BranchName"
    /\ args.prefix = <<>>
    /\ args.text = Padded
    /\ got.name = <<"f","i","x">>

\* C25: a Config with N tasks that is saved and loaded again (the file being
\* readable) comes back with N
\* tasks, each with the field values it had (Created as the same instant),
\* and with the same scalar fields.
SameTask(a, b) ==
    /\ \A f \in DOMAIN a \ {"Created"} : a[f] = b[f]
    /\ a.Created.instant = b.Created.instant

C25_LoadAfterSave ==
    (phase = "loaded" /\ loaded.after = "saved" /\ loaded.err # "failed to read config") =>
        /\ loaded.err = ""
        /\ Len(loaded.cfg.Tasks) = Len(mem.Tasks)
        /\ \A i \in 1..Len(mem.Tasks) : SameTask(loaded.cfg.Tasks[i], mem.Tasks[i])
        /\ loaded.cfg.WorktreesBase = mem.WorktreesBase
        /\ loaded.cfg.DefaultBranch = mem.DefaultBranch
        /\ loaded.cfg.BranchPrefix = mem.BranchPrefix
        /\ loaded.cfg.DefaultAgent = mem.DefaultAgent

C25_Witness ==
    /\ phase = "loaded"
    /\ loaded.after = "saved"
    /\ loaded.err = ""
    /\ Len(mem.Tasks) = 2
    /\ mem.Tasks[1].Description = Null
    /\ mem.Tasks[2].TicketKey = P1
    /\ mem.Tasks[2].Created.mono
    /\ mem.BranchPrefix = <<>>
    /\ mem.DefaultAgent = "claude"
    /\ loaded.cfg.Tasks[2].TicketKey = P1

\* new is old without its record at i, the others as they were and in order.
Without(old, new, i) ==
    /\ i \in 1..Len(old)
    /\ Len(new) = Len(old) - 1
    /\ \A j \in 1..Len(new) : new[j] = IF j < i THEN old[j] ELSE old[j + 1]

\* new holds records of old only, in the order they have in old.
RECURSIVE KeptFrom(_, _)
KeptFrom(new, old) ==
    IF new = <<>> THEN TRUE
    ELSE IF old = <<>> THEN FALSE
    ELSE \/ (Head(new) = Head(old) /\ KeptFrom(Tail(new), Tail(old)))
         \/ KeptFrom(new, Tail(old))

C27_MissingDirectorySurfaced ==
    (/\ pc = "done"
     /\ cur.cmd \in {"switch", "finish", "remove"}
     /\ FindTask(pre.tasks, cur.arg) > 0
     /\ ~\E w \in pre.worktrees : w.path = pre.tasks[FindTask(pre.tasks, cur.arg)].Worktree)
        => (result.status = "error" \/ result.warned)

\* An external call that failed, other than the probe of the branch (whose
\* flag is its report) and the deletion of the branch.
FatalCall(c) == ~c.ok /\ c.op \notin {"BranchExists", "DeleteBranch"}

\* C28: a command in which an internal layer returned an error (a call that
\* failed, other than the branch deletion, or a lookup that found no record)
\* ends with an error.
C28_ErrorsPropagated ==
    (/\ pc = "done"
     /\ \/ \E i \in 1..Len(calls) : FatalCall(calls[i])
        \/ (cur.cmd \in {"switch", "finish", "remove"} /\ Called("Load", TRUE)
            /\ FindTask(pre.tasks, cur.arg) = 0)
        \/ (cur.cmd = "status" /\ Called("Getwd", TRUE)
            /\ FindTaskByWorktree(Tasks, cur.cwd) = 0))
        => result.status = "error"

\* C29: within one Start, Finish or Remove no external operation is invoked
\* twice, and a call that failed fatally is the last one made: the command
\* has ended with an error there.
C29_NothingRetried ==
    cur.cmd \in {"start", "finish", "remove"} =>
        /\ \A i, j \in 1..Len(calls) : calls[i].op = calls[j].op => i = j
        /\ \A i \in 1..Len(calls) :
              FatalCall(calls[i]) =>
                  /\ i = Len(calls)
                  /\ pc = "done"
                  /\ result.status = "error"

C29_Witness ==
    /\ pc = "done"
    /\ cur.cmd = "start"
    /\ Len(calls) = 5
    /\ Invoked("MkdirAll")
    /\ calls[Len(calls)] = Call("Create", FALSE)
    /\ result.status = "error"

\* The connector name and the ticket key of a record are both set or both empty.
Paired(r) == (r.Connector = "") <=> (r.TicketKey = <<>>)

\* C30: every record Start has registered, in memory and in the file, and the
\* one it returns, has its connector name and its ticket key both set or both
\* empty.
C30_ConnectorWithTicketKey ==
    /\ \A i \in 1..Len(Tasks) : Paired(Tasks[i])
    /\ \A i \in 1..Len(disk.tasks) : Paired(disk.tasks[i])
    /\ (pc = "done" /\ cur.cmd = "start") => Paired(result.task)

C30_Witness ==
    /\ pc = "done"
    /\ cur.cmd = "start"
    /\ result.status = "ok"
    /\ result.task.Connector = "jira"
    /\ result.task.TicketKey = P1
    /\ Len(disk.tasks) = 2
    /\ disk.tasks[1].Connector = ""
    /\ disk.tasks[1].TicketKey = <<>>
    /\ disk.tasks[2] = result.task

\* The records of a listing: the first and the last line of each run of
\* lines between blank lines, in the order of the listing.
RecordAt(lines, i) ==
    [first |-> i,
     last |-> CHOOSE j \in i..Len(lines) :
                 /\ \A k \in i..j : lines[k] # Blank
                 /\ (j = Len(lines) \/ lines[j + 1] = Blank)]

RECURSIVE RecordsFrom(_, _)
RecordsFrom(lines, i) ==
    IF i > Len(lines) THEN <<>>
    ELSE IF StartsRecord(lines, i)
    THEN <<RecordAt(lines, i)>> \o RecordsFrom(lines, i + 1)
    ELSE RecordsFrom(lines, i + 1)

\* The value of the last line with the tag in a record, empty without one.
Tagged(lines, r, tag) ==
    LET at == {k \in r.first..r.last : HasTag(lines[k], tag)}
    IN  IF at = {} THEN "" ELSE lines[CHOOSE k \in at : \A m \in at : m <= k].rest

InfoOf(lines, r) ==
    WorktreeInfo(Tagged(lines, r, "worktree"), Tagged(lines, r, "HEAD"),
                 Tagged(lines, r, "branch"),
                 \E k \in r.first..r.last : lines[k] = Line("bare", ""))

\* C31: parseWorktreeList returns one WorktreeInfo for each record of the
\* listing, in the order of the listing, with the path, commit, branch and
\* bare mark of the tagged lines of that record and of no other; a line with
\* an unknown tag changes nothing.
C31_OneInfoPerRecord ==
    (ret.returned /\ req.fn = "parseWorktreeList") =>
        LET records == RecordsFrom(req.lines, 1)
        IN  /\ Len(ret.infos) = Len(records)
            /\ \A i \in 1..Len(records) : ret.infos[i] = InfoOf(req.lines, records[i])

C31_Witness ==
    /\ ret.returned
    /\ req.fn = "parseWorktreeList"
    /\ req.lines = <<Line("worktree", "/a"), Line("HEAD", "h1"), Blank, Line("worktree", "/b")>>
    /\ ret.infos = <<WorktreeInfo("/a", "h1", "", FALSE), WorktreeInfo("/b", "", "", FALSE)>>

\* C34: start and agent launch the agent of --agent when that is set, else
\* the one of WT_AGENT when that is set, else default_agent: a source is used
\* only when every source before it is empty.
C34_AgentByPriority ==
    (ret.returned /\ req.fn \in {"startCmd", "agentCmd"}) =>
        /\ req.flag # "" => ret.name = req.flag
        /\ (req.flag = "" /\ req.env # "") => ret.name = req.env
        /\ (req.flag = "" /\ req.env = "") => ret.name = req.def
        /\ (ret.name = req.env /\ ret.name # req.flag) => req.flag = ""
        /\ (ret.name = req.def /\ ret.name # req.flag /\ ret.name # req.env) =>
               (req.flag = "" /\ req.env = "")

C34_Witness ==
    /\ ret.returned
    /\ req.fn = "startCmd"
    /\ req.flag = "claude"
    /\ req.env = "codex"
    /\ req.def = "aider"
    /\ ret.name = "claude"

\* The quote that is open before the character at i is read: its position, 0
\* when none is.
RECURSIVE OpenAt(_, _)
OpenAt(text, i) ==
    IF i = 1 THEN 0
    ELSE LET o == OpenAt(text, i - 1)
         IN  IF o = 0 THEN (IF IsQuote(text[i - 1]) THEN i - 1 ELSE 0)
             ELSE IF text[i - 1] = text[o] THEN 0 ELSE o

\* A space outside quotes, a quote that opens or closes, or text.
ClassAt(text, i) ==
    LET o == OpenAt(text, i)
    IN  IF o = 0
        THEN (IF text[i] = " " THEN "space" ELSE IF IsQuote(text[i]) THEN "quote" ELSE "text")
        ELSE IF text[i] = text[o] THEN "quote" ELSE "text"

\* The characters of text at the positions i..j that are text.
RECURSIVE TextOf(_, _, _)
TextOf(text, i, j) ==
    IF i > j THEN <<>>
    ELSE (IF ClassAt(text, i) = "text" THEN <<text[i]>> ELSE <<>>) \o TextOf(text, i + 1, j)

\* The arguments from position i on: one for each run of positions between
\* spaces outside quotes that holds text.
RECURSIVE ArgsFrom(_, _)
ArgsFrom(text, i) ==
    IF i > Len(text) THEN <<>>
    ELSE IF ClassAt(text, i) = "space" THEN ArgsFrom(text, i + 1)
    ELSE LET j == CHOOSE k \in i..Len(text) :
                     /\ \A m \in i..k : ClassAt(text, m) # "space"
                     /\ (k = Len(text) \/ ClassAt(text, k + 1) = "space")
             arg == TextOf(text, i, j)
         IN  (IF arg = <<>> THEN <<>> ELSE <<arg>>) \o ArgsFrom(text, j + 1)

\* C35: ParseAgentArgs splits at the spaces outside quotes, keeps what stands
\* between two matching quotes in one argument without the quotes, returns
\* no empty argument, and nothing for the empty string.
C35_ArgsSplitOutsideQuotes ==
    (ret.returned /\ req.fn = "ParseAgentArgs") =>
        /\ ret.args = ArgsFrom(req.text, 1)
        /\ \A i \in 1..Len(ret.args) : ret.args[i] # <<>>
        /\ req.text = <<>> => ret.args = <<>>

C35_Witness ==
    /\ ret.returned
    /\ req.fn = "ParseAgentArgs"
    /\ req.text = <<"a", " ", "'", " ", "'">>
    /\ ret.args = <<<<"a">>, <<" ">>>>

\* C32: with no file Load returns the default configuration, with no task;
\* with a file that cannot be parsed it returns the parse error and no Config.
C32_LoadDefaultsOrFails ==
    phase = "loaded" =>
        /\ ~doc.exists =>
              /\ loaded.err = ""
              /\ ~loaded.isNil
              /\ loaded.cfg = DefaultConfig
              /\ loaded.cfg.Tasks = <<>>
        /\ (doc.exists /\ doc.corrupt /\ loaded.err # "failed to read config") =>
              /\ loaded.err = "failed to parse config"
              /\ loaded.isNil

C32_Witness ==
    /\ phase = "loaded"
    /\ doc.exists
    /\ doc.corrupt
    /\ mem.Tasks # <<>>
    /\ loaded.err = "failed to parse config"
    /\ loaded.isNil

\* C33: `wt config` with a key that is none of the four, read or set, ends
\* with an error, the file is as it was, and the Config in memory is the one
\* that was loaded.
C33_UnknownKeyRefused ==
    [][(phase' = "configured" /\ phase # "configured" /\ loaded'.key \notin ConfigKeys) =>
          /\ loaded'.err # ""
          /\ doc' = doc
          /\ loaded'.err \notin {"failed to read config", "failed to parse config"} =>
                /\ loaded'.err = "unknown config key"
                /\ loaded'.cfg = Load(doc, TRUE).cfg
      ]_vars

C33_Witness ==
    /\ phase = "configured"
    /\ loaded.key = "colour"
    /\ loaded.set
    /\ loaded.err = "unknown config key"
    /\ doc.exists
    /\ loaded.cfg.Tasks # <<>>

\* C36: when AddTask or RemoveTask has returned the error of a save that
\* failed, the task list in memory is the one from before the call.
C36_FailedSaveLeavesMemory ==
    (pc = "done" /\ cur.cmd \in {"start", "finish", "remove"} /\ Called("Save", FALSE)) =>
        Tasks = pre.tasks

\* C37: a Finish or Remove given the id of a persisted record, in which no
\* call fails for a reason from outside, succeeds and the record is gone
\* from the file, whether or not the working copy of the record is still there.
C37_RecordCanBeUnregistered ==
    (/\ pc = "done"
     /\ cur.cmd \in {"finish", "remove"}
     /\ FindTask(pre.disk.tasks, cur.arg) > 0
     /\ faults = pre.faults)
        => /\ result.status = "ok"
           /\ Len(disk.tasks) = Len(pre.disk.tasks) - 1

\* C38: a branch stays until `git branch -D` in Finish deletes it (Remove
\* keeps it, and so does a Finish whose deletion fails), and while it is
\* there a Start in its repository whose inputs give its name, in which no
\* call fails for a reason from outside, is refused with the collision error
\* and creates nothing.
C38_BranchBlocksUntilDeleted ==
    [][/\ \A b \in branches \ branches' :
             /\ cur.cmd = "finish"
             /\ calls'[Len(calls')] = Call("DeleteBranch", TRUE)
       /\ (/\ pc \notin {"idle", "done"}
           /\ pc' = "done"
           /\ cur.cmd = "start"
           /\ faults' = pre.faults
           /\ [repo |-> cur.opts.RepoPath, name |-> StartBranch(cur.opts)] \in pre.branches)
          => /\ result'.status = "error"
             /\ result'.err = "branch already exists"
             /\ branches' = pre.branches
             /\ worktrees' = pre.worktrees
             /\ Tasks' = pre.tasks
             /\ disk' = pre.disk
      ]_vars

\* A Start refused by the branch a Remove or a Finish left behind: no record
\* and no working copy has the branch any more.
C38_Witness ==
    /\ pc = "done"
    /\ cur.cmd = "start"
    /\ faults = 0
    /\ result.err = "branch already exists"
    /\ [repo |-> cur.opts.RepoPath, name |-> StartBranch(cur.opts)] \in branches
    /\ ~\E w \in worktrees : w.branch = StartBranch(cur.opts)
    /\ \A i \in 1..Len(disk.tasks) : disk.tasks[i].Branch # StartBranch(cur.opts)

\* C39: after the orphan outcome of Start (the working copy was created and
\* the save of the registry failed) no record in the file carries the id of
\* the orphaned task, so no Finish or Remove can address its working copy.
C39_OrphanHasNoRecord ==
    (/\ pc = "done"
     /\ cur.cmd = "start"
     /\ Called("Create", TRUE)
     /\ Called("Save", FALSE))
        => \A i \in 1..Len(disk.tasks) : disk.tasks[i].ID # cur.id

====
